---- MODULE Spec2Model ----
(***************************************************************************)
(* Identity-Compass: the tag co-occurrence store (tag_connections), the    *)
(* daily-log save paths that feed it and the queries that read it; the     *)
(* category graph of the Mind Map with its temporal links and noise        *)
(* filter; the trajectory scores of the dashboard.                         *)
(*                                                                         *)
(* Strings are sequences of UTF-16 code units, so that toLowerCase, trim,  *)
(* the default Array.prototype.sort order and template-string              *)
(* concatenation are computed and not assumed.                             *)
(***************************************************************************)
EXTENDS Integers, Sequences, FiniteSets, TLC

(***************************************************************************)
(* Bounds of the model.                                                    *)
(***************************************************************************)
\* calls of recordTagConnections (through any caller) in one behaviour
MaxCalls == 3
\* saves and edits of journal logs in one behaviour
MaxSaves == 2
\* largest minWeight a query is asked with
MaxMinWeight == 3

(***************************************************************************)
(* Raw strings used as inputs.                                             *)
(***************************************************************************)
sGym == <<103, 121, 109>>                       \* "gym"
sGymUp == <<71, 89, 77, 32>>                    \* "GYM "
sFriends == <<102, 114, 105, 101, 110, 100, 115>>       \* "friends"
sFriendsUp == <<32, 70, 114, 105, 101, 110, 100, 115>>  \* " Friends"
sCoffee == <<99, 111, 102, 102, 101, 101>>      \* "coffee"
sBlank == <<32>>                                \* " "
sHash == <<35>>                                 \* "#"
sHashGym == <<35, 103, 121, 109>>               \* "#gym"
sA == <<97>>                                    \* "a"
sAB == <<97, 95, 98>>                           \* "a_b"
sBC == <<98, 95, 99>>                           \* "b_c"
sC == <<99>>                                    \* "c"

\* tag lists handed to updateDailyLog and carried by imported videos
TagLists ==
    { <<>>,
      <<sGym>>,
      <<sGym, sFriends>>,
      <<sFriends, sGym>>,
      <<sFriendsUp, sGymUp>>,
      <<sGym, sCoffee>>,
      <<sGym, sFriends, sCoffee>>,
      <<sGym, sGymUp, sFriends>>,
      <<sGym, sGymUp>>,
      <<sGym, sBlank>>,
      <<sAB, sC>>,
      <<sA, sBC>> }

\* tag lists of the videos of an import whose calls overlap
VideoLists ==
    { <<sGym>>,
      <<sGym, sFriends>>,
      <<sFriendsUp, sGymUp>>,
      <<sGym, sFriends, sCoffee>>,
      <<sGym, sGymUp, sFriends>> }

\* tag lists an edit of a log is saved with
EditLists ==
    { <<sGym>>,
      <<sGym, sFriends>>,
      <<sGymUp, sBlank>> }

\* what the user types into the manual tag box
TagInputs == { sGymUp, sHashGym, sHash, sBlank }

(***************************************************************************)
(* String primitives of the JavaScript runtime.                            *)
(***************************************************************************)
IsSpace(c) == c \in {9, 10, 11, 12, 13, 32, 160}

ToLowerChar(c) == IF c >= 65 /\ c <= 90 THEN c + 32 ELSE c

toLowerCase(s) == [i \in 1..Len(s) |-> ToLowerChar(s[i])]

RECURSIVE TrimStart(_)
TrimStart(s) ==
    IF s # <<>> /\ IsSpace(Head(s)) THEN TrimStart(Tail(s)) ELSE s

RECURSIVE TrimEnd(_)
TrimEnd(s) ==
    IF s # <<>> /\ IsSpace(s[Len(s)])
    THEN TrimEnd(SubSeq(s, 1, Len(s) - 1))
    ELSE s

trim(s) == TrimEnd(TrimStart(s))

\* s < t in the order of the default sort (code unit by code unit)
RECURSIVE StrLess(_, _)
StrLess(s, t) ==
    IF t = <<>> THEN FALSE
    ELSE IF s = <<>> THEN TRUE
    ELSE IF Head(s) # Head(t) THEN Head(s) < Head(t)
    ELSE StrLess(Tail(s), Tail(t))

\* the pair left in the order it was given
SortPairAsGiven(x, y) == <<x, y>>

\* [x, y].sort()
SortPair(x, y) == IF StrLess(y, x) THEN <<y, x>> ELSE <<x, y>>

\* s.replace('#', ''): the first occurrence only
RECURSIVE ReplaceFirstHash(_)
ReplaceFirstHash(s) ==
    IF s = <<>> THEN <<>>
    ELSE IF Head(s) = 35 THEN Tail(s)
    ELSE <<Head(s)>> \o ReplaceFirstHash(Tail(s))

\* tag.toLowerCase().trim()
NormalizeTag(tag) == trim(toLowerCase(tag))

(***************************************************************************)
(* tagConnectionService: pair extraction.                                  *)
(***************************************************************************)
generateConnectionId(tag1, tag2) ==
    LET sorted == SortPair(NormalizeTag(tag1), NormalizeTag(tag2))
    IN  sorted[1] \o <<95>> \o sorted[2]

\* source and target taken in the order of the list
PairOfAsGiven(tag1, tag2) ==
    [id |-> generateConnectionId(tag1, tag2), source |-> tag1, target |-> tag2]

PairOf(tag1, tag2) ==
    LET sorted == SortPair(tag1, tag2)
    IN  [id |-> generateConnectionId(tag1, tag2),
         source |-> sorted[1], target |-> sorted[2]]

\* the pairs pushed for a fixed i, with j running from j to the end
RECURSIVE InnerPairs(_, _, _)
InnerPairs(nt, i, j) ==
    IF j > Len(nt) THEN <<>>
    ELSE (IF nt[i] # nt[j] THEN <<PairOf(nt[i], nt[j])>> ELSE <<>>)
         \o InnerPairs(nt, i, j + 1)

RECURSIVE OuterPairs(_, _)
OuterPairs(nt, i) ==
    IF i > Len(nt) THEN <<>>
    ELSE InnerPairs(nt, i, i + 1) \o OuterPairs(nt, i + 1)

extractTagPairs(tags) ==
    OuterPairs([k \in 1..Len(tags) |-> NormalizeTag(tags[k])], 1)

(***************************************************************************)
(* State.                                                                  *)
(***************************************************************************)
VARIABLES
    store,        \* tag_connections: document id -> [source, target, weight]
    dailyLogs,    \* daily_logs: log id -> the tags of the stored log
    calls,        \* the save/import calls, by the order they were started in
    uiTags,       \* DailyLog page: names of the tags in the form
    queryResult,  \* what the last getAllTagConnections returned
    categorizedVideos,  \* the list buildGraphFromCategories is called with
    graphSource,        \* which buildGraphFromCategories built graphData
    graphData,          \* MindMap page: the graph, {nodes, links}
    minNodeWeight,      \* MindMap page: the frequency threshold
    filteredGraphData,  \* MindMap page: the memoized noise-filtered graph
    tagMappings,        \* tag_mappings: the user's mappings, tag -> value
    windowLogs,         \* the tags of the user's daily logs in the window
    trajectory,         \* Dashboard: what calculateTrajectory returned, or null
    trendsData,         \* Analytics page: the monthly buckets
    pieData,            \* Analytics page: the totals of the pie chart
    archetype,          \* Analytics page: the archetype name
    stats,              \* Analytics page: the summary, or null
    loading,            \* Analytics page: loadAnalytics has not finished
    classification,     \* Settings page: the classification call in progress
    videoStore,         \* categorized_videos: document id -> document
    saving,             \* Settings page: the saveCategorizedVideos call
    mappingCalls        \* the calls of tagMappingService, by slot

connVars == <<store, dailyLogs, calls, uiTags, queryResult>>

graphVars == <<categorizedVideos, graphSource, graphData, minNodeWeight,
               filteredGraphData>>

scoreVars == <<tagMappings, windowLogs, trajectory>>

analyticsVars == <<trendsData, pieData, archetype, stats, loading>>

\* the variables of the pages and services further below
classifyVars == <<classification>>

saveVars == <<videoStore, saving>>

mappingVars == <<mappingCalls>>

restVars == <<analyticsVars, classifyVars, saveVars, mappingVars>>

vars == <<connVars, graphVars, scoreVars, restVars>>

Slots == 1..MaxCalls

IdleCall ==
    [kind |-> "none", tags |-> <<>>, logId |-> 0, group |-> 0, pc |-> "idle",
     idx |-> 0, batch |-> <<>>, primary |-> "none", connError |-> FALSE,
     committed |-> FALSE, result |-> "pending"]

NoQuery == [minWeight |-> 0, connections |-> <<>>]

Started == {c \in Slots : calls[c].kind # "none"}

InFlight == {c \in Slots : calls[c].pc \in {"primary", "read", "commit"}}

FreeSlots == MaxCalls - Cardinality(Started)

AllQuiet == InFlight = {}

\* no classification call has been made
IdleClassification ==
    [kind |-> "none", items |-> <<>>, pc |-> "idle", batch |-> 0,
     retryCount |-> 0, requests |-> 0, lastStatus |-> "none",
     answers |-> <<>>, result |-> <<>>, outcome |-> "pending",
     error |-> "", progress |-> [current |-> 0, total |-> 0]]

\* saveCategorizedVideos has not been called; failed counts the calls that
\* threw
IdleSaving ==
    [run |-> 0, failed |-> 0, items |-> <<>>, pc |-> "idle", i |-> 0,
     savedCount |-> 0, progress |-> 0, outcome |-> "pending"]

\* calls of tagMappingService in one behaviour
MaxMappingCalls == 2

\* a call of tagMappingService that has not been made
IdleMappingCall ==
    [op |-> "none", given |-> <<>>, pc |-> "idle",
     snapshot |-> [exists |-> FALSE, mappings |-> <<>>],
     result |-> "pending", doneAt |-> 0]

\* the pages and services further below, as they are constructed
RestInit ==
    /\ trendsData = <<>>
    /\ pieData = <<>>
    /\ archetype = "Explorer"
    /\ stats = [null |-> TRUE]
    /\ loading = TRUE
    /\ classification = IdleClassification
    /\ videoStore = <<>>
    /\ saving = IdleSaving
    /\ mappingCalls = [c \in 1..MaxMappingCalls |-> IdleMappingCall]

Init ==
    /\ store = <<>>
    /\ dailyLogs = <<>>
    /\ calls = [c \in Slots |-> IdleCall]
    /\ uiTags = <<>>
    /\ queryResult = NoQuery
    /\ categorizedVideos = <<>>
    /\ graphSource = "none"
    /\ graphData = [nodes |-> <<>>, links |-> <<>>]
    /\ minNodeWeight = 1
    /\ filteredGraphData = [nodes |-> <<>>, links |-> <<>>]
    /\ tagMappings = <<>>
    /\ windowLogs = <<>>
    /\ trajectory = [null |-> TRUE]
    /\ RestInit

(***************************************************************************)
(* Firestore write batch.                                                  *)
(***************************************************************************)
\* batch.set(ref, {source, target, weight: 1, ...}): replaces the document
SetOp(pair) ==
    [op |-> "set", id |-> pair.id, source |-> pair.source,
     target |-> pair.target]

\* batch.update(ref, {weight: increment(1), ...})
UpdateOp(pair) ==
    [op |-> "update", id |-> pair.id, source |-> pair.source,
     target |-> pair.target]

ApplyOp(st, w) ==
    IF w.op = "set"
    THEN [x \in DOMAIN st \cup {w.id} |->
            IF x = w.id
            THEN [source |-> w.source, target |-> w.target, weight |-> 1]
            ELSE st[x]]
    ELSE [st EXCEPT ![w.id].weight = @ + 1]

\* an update of a missing document fails the commit (NOT_FOUND)
RECURSIVE BatchApplies(_, _)
BatchApplies(st, batch) ==
    IF batch = <<>> THEN TRUE
    ELSE /\ (Head(batch).op = "update" => Head(batch).id \in DOMAIN st)
         /\ BatchApplies(ApplyOp(st, Head(batch)), Tail(batch))

RECURSIVE ApplyBatch(_, _)
ApplyBatch(st, batch) ==
    IF batch = <<>> THEN st
    ELSE ApplyBatch(ApplyOp(st, Head(batch)), Tail(batch))

(***************************************************************************)
(* recordTagConnections, as the steps between its awaits.                  *)
(***************************************************************************)
\* the error of recordTagConnections reaching the caller of the save
ResultOnConnThrowUncaught(kind) == "thrown"

\* how the enclosing operation ends when recordTagConnections throws: the
\* saves catch the error, Promise.all rejects
ResultOnConnThrow(kind) ==
    IF kind \in {"create", "update"} THEN "success" ELSE "thrown"

\* the synchronous head: the guards, extractTagPairs, the first getDoc issued
RecordStart(call) ==
    IF Len(call.tags) < 2 \/ extractTagPairs(call.tags) = <<>>
    THEN [call EXCEPT !.pc = "done", !.result = "success"]
    ELSE [call EXCEPT !.pc = "read", !.idx = 1]

\* the form is cleared after a successful save
FormAfter(call) ==
    IF call.kind = "create" /\ call.pc = "done" /\ call.result = "success"
    THEN <<>>
    ELSE uiTags

\* await getDoc(connectionRef) returns a snapshot
GetDocOk(c) ==
    LET call == calls[c]
        pairs == extractTagPairs(call.tags)
        pair == pairs[call.idx]
        w == IF pair.id \in DOMAIN store THEN UpdateOp(pair) ELSE SetOp(pair)
    IN  /\ call.pc = "read"
        /\ calls' = [calls EXCEPT ![c] =
                [call EXCEPT !.batch = Append(@, w),
                             !.idx = @ + 1,
                             !.pc = IF call.idx = Len(pairs)
                                    THEN "commit" ELSE "read"]]
        /\ UNCHANGED <<store, dailyLogs, uiTags, queryResult, graphVars, scoreVars, restVars>>

\* a read or the commit rejects: recordTagConnections rethrows
ConnFail(c) ==
    LET call == calls[c]
        ended == [call EXCEPT !.pc = "done", !.connError = TRUE,
                              !.result = ResultOnConnThrow(call.kind)]
    IN  /\ call.pc \in {"read", "commit"}
        /\ calls' = [calls EXCEPT ![c] = ended]
        /\ uiTags' = FormAfter(ended)
        /\ UNCHANGED <<store, dailyLogs, queryResult, graphVars, scoreVars, restVars>>

\* await batch.commit() resolves: every write of the batch is applied
CommitOk(c) ==
    LET call == calls[c]
        ended == [call EXCEPT !.pc = "done", !.committed = TRUE,
                              !.result = "success"]
    IN  /\ call.pc = "commit"
        /\ BatchApplies(store, call.batch)
        /\ store' = ApplyBatch(store, call.batch)
        /\ calls' = [calls EXCEPT ![c] = ended]
        /\ uiTags' = FormAfter(ended)
        /\ UNCHANGED <<dailyLogs, queryResult, graphVars, scoreVars, restVars>>

(***************************************************************************)
(* DailyLog page.                                                          *)
(***************************************************************************)
InForm(name) == \E k \in 1..Len(uiTags) : uiTags[k] = name

\* the Add button with currentTag = raw
handleAddTag(raw) ==
    LET normalizedTag == ReplaceFirstHash(trim(toLowerCase(raw)))
    IN  /\ uiTags' = IF trim(raw) # <<>> /\ ~InForm(normalizedTag)
                     THEN Append(uiTags, normalizedTag)
                     ELSE uiTags
        /\ UNCHANGED <<store, dailyLogs, calls, queryResult, graphVars, scoreVars, restVars>>

\* createDailyLog(userId, {tags}) is called and awaits addDoc
createDailyLog(tags) ==
    LET c == Cardinality(Started) + 1
    IN  /\ Cardinality(Started) < MaxSaves
        /\ calls' = [calls EXCEPT ![c] =
                [IdleCall EXCEPT !.kind = "create", !.tags = tags,
                                 !.logId = c, !.pc = "primary"]]
        /\ UNCHANGED <<store, dailyLogs, uiTags, queryResult, graphVars, scoreVars, restVars>>

\* the Save button (disabled while a save is loading) passes the names in
\* the form; the text is taken as written, and every tag of the form has a
\* dimension, since getDimensionFromTag falls back to 'Unassigned' 
handleSave ==
    /\ \A d \in InFlight : calls[d].kind # "create"
    /\ createDailyLog(uiTags)

(***************************************************************************)
(* dailyLogService.                                                        *)
(***************************************************************************)
\* updateDailyLog(logId, {tags}) is called and awaits updateDoc
updateDailyLog(logId, tags) ==
    LET c == Cardinality(Started) + 1
    IN  /\ Cardinality(Started) < MaxSaves
        /\ calls' = [calls EXCEPT ![c] =
                [IdleCall EXCEPT !.kind = "update", !.tags = tags,
                                 !.logId = logId, !.pc = "primary"]]
        /\ UNCHANGED <<store, dailyLogs, uiTags, queryResult, graphVars, scoreVars, restVars>>

\* updateDoc needs the document to exist; addDoc creates it
PrimaryCanCommit(call) ==
    call.kind = "update" => call.logId \in DOMAIN dailyLogs

\* the log write resolves; with two tags or more the connections follow
PrimaryOk(c) ==
    LET call == calls[c]
        written == [call EXCEPT !.primary = "committed"]
        next == IF Len(call.tags) >= 2
                THEN RecordStart(written)
                ELSE [written EXCEPT !.pc = "done", !.result = "success"]
    IN  /\ call.pc = "primary"
        /\ PrimaryCanCommit(call)
        /\ dailyLogs' = [x \in DOMAIN dailyLogs \cup {call.logId} |->
                            IF x = call.logId THEN call.tags ELSE dailyLogs[x]]
        /\ calls' = [calls EXCEPT ![c] = next]
        /\ uiTags' = FormAfter(next)
        /\ UNCHANGED <<store, queryResult, graphVars, scoreVars, restVars>>

\* the log write rejects: the outer catch rethrows
PrimaryFail(c) ==
    LET call == calls[c]
    IN  /\ call.pc = "primary"
        /\ calls' = [calls EXCEPT ![c] =
                [call EXCEPT !.primary = "failed", !.pc = "done",
                             !.result = "thrown"]]
        /\ UNCHANGED <<store, dailyLogs, uiTags, queryResult, graphVars, scoreVars, restVars>>

(***************************************************************************)
(* youtubeHistoryService.                                                  *)
(***************************************************************************)
RECURSIVE FilterTagged(_)
FilterTagged(batch) ==
    IF batch = <<>> THEN <<>>
    ELSE (IF Len(Head(batch)) >= 2 THEN <<Head(batch)>> ELSE <<>>)
         \o FilterTagged(Tail(batch))

\* processBatchConnections(batch): every video with two tags or more gets
\* its recordTagConnections started before any of them is awaited
processBatchConnections(batch) ==
    LET videos == FilterTagged(batch)
        first == Cardinality(Started)
    IN  /\ Len(videos) <= FreeSlots
        /\ calls' = [c \in Slots |->
                IF c > first /\ c <= first + Len(videos)
                THEN RecordStart([IdleCall EXCEPT !.kind = "import",
                                                  !.tags = videos[c - first],
                                                  !.group = first + 1])
                ELSE calls[c]]
        /\ UNCHANGED <<store, dailyLogs, uiTags, queryResult, graphVars, scoreVars, restVars>>

\* processYouTubeHistory goes on to its next batch when the Promise.all of
\* the batch before has settled: all of its calls resolved, or one rejected
BatchSettled ==
    \A c \in InFlight :
        calls[c].kind = "import" =>
            \E d \in Slots : /\ calls[d].group = calls[c].group
                             /\ calls[d].result = "thrown"

(***************************************************************************)
(* tagConnectionService: queries.                                          *)
(***************************************************************************)
\* the documents of the collection in the order getDocs yields them (by id)
RECURSIVE DocsInOrder(_)
DocsInOrder(ids) ==
    IF ids = {} THEN <<>>
    ELSE LET first == CHOOSE x \in ids : \A y \in ids \ {x} : StrLess(x, y)
         IN  <<first>> \o DocsInOrder(ids \ {first})

\* insert e after the elements that do not sort after it (a stable sort by
\* the comparator (a, b) => b.weight - a.weight)
RECURSIVE InsertByWeight(_, _)
InsertByWeight(sorted, e) ==
    IF sorted = <<>> THEN <<e>>
    ELSE IF Head(sorted).weight >= e.weight
         THEN <<Head(sorted)>> \o InsertByWeight(Tail(sorted), e)
         ELSE <<e>> \o sorted

RECURSIVE SortByWeight(_)
SortByWeight(list) ==
    IF list = <<>> THEN <<>>
    ELSE InsertByWeight(SortByWeight(SubSeq(list, 1, Len(list) - 1)),
                        list[Len(list)])

\* the filter with weight > minWeight
RECURSIVE KeepAboveMinWeight(_, _)
KeepAboveMinWeight(ids, minWeight) ==
    IF ids = <<>> THEN <<>>
    ELSE (IF store[Head(ids)].weight > minWeight
          THEN <<[id |-> Head(ids), source |-> store[Head(ids)].source,
                  target |-> store[Head(ids)].target,
                  weight |-> store[Head(ids)].weight]>>
          ELSE <<>>)
         \o KeepAboveMinWeight(Tail(ids), minWeight)

RECURSIVE KeepMinWeight(_, _)
KeepMinWeight(ids, minWeight) ==
    IF ids = <<>> THEN <<>>
    ELSE (IF store[Head(ids)].weight >= minWeight
          THEN <<[id |-> Head(ids), source |-> store[Head(ids)].source,
                  target |-> store[Head(ids)].target,
                  weight |-> store[Head(ids)].weight]>>
          ELSE <<>>)
         \o KeepMinWeight(Tail(ids), minWeight)

AllTagConnections(minWeight) ==
    SortByWeight(KeepMinWeight(DocsInOrder(DOMAIN store), minWeight))

getAllTagConnections(minWeight) ==
    /\ queryResult' = [minWeight |-> minWeight,
                       connections |-> AllTagConnections(minWeight)]
    /\ UNCHANGED <<store, dailyLogs, calls, uiTags, graphVars, scoreVars, restVars>>

RECURSIVE KeepTouching(_, _)
KeepTouching(ids, normalizedTag) ==
    IF ids = <<>> THEN <<>>
    ELSE LET data == store[Head(ids)]
         IN  (IF data.source = normalizedTag \/ data.target = normalizedTag
              THEN <<[tag |-> IF data.source = normalizedTag
                              THEN data.target ELSE data.source,
                      weight |-> data.weight]>>
              ELSE <<>>)
             \o KeepTouching(Tail(ids), normalizedTag)

\* getTagConnections(tag), on the store as it is
TagConnections(tag) ==
    SortByWeight(KeepTouching(DocsInOrder(DOMAIN store), NormalizeTag(tag)))

(***************************************************************************)
(* Specifications.                                                         *)
(***************************************************************************)
\* the batches of an import: up to MaxCalls videos each
RECURSIVE ListsOf(_, _)
ListsOf(S, n) ==
    IF n = 0 THEN {<<>>}
    ELSE LET shorter == ListsOf(S, n - 1)
         IN  shorter \cup {Append(l, x) : l \in shorter, x \in S}

Batches == ListsOf(VideoLists, MaxCalls) \ {<<>>}

\* ids a log may be updated under: the logs written so far and a missing one
LogIds == DOMAIN dailyLogs \cup {0}

\* getAllTagConnections only reads, so it is observed after the writers
NotObserved == queryResult = NoQuery

\* imports, whose recordTagConnections calls overlap, over an unreliable
\* network
Next ==
    \/ /\ BatchSettled
       /\ FreeSlots > 0
       /\ \E batch \in Batches : processBatchConnections(batch)
    \/ \E c \in Slots : GetDocOk(c)
    \/ \E c \in Slots : ConnFail(c)
    \/ \E c \in Slots : CommitOk(c)

Spec == Init /\ [][Next]_vars

\* one recordTagConnections at a time over a reliable network, then queries
NextSeq ==
    \/ \E tags \in TagLists :
           AllQuiet /\ NotObserved /\ processBatchConnections(<<tags>>)
    \/ \E c \in Slots : GetDocOk(c)
    \/ \E c \in Slots : CommitOk(c)
    \/ \E minWeight \in 1..MaxMinWeight :
           AllQuiet /\ getAllTagConnections(minWeight)

SpecSeq == Init /\ [][NextSeq]_vars

\* the journal: the form, then saves and edits of logs one at a time, over an
\* unreliable network
NextJournal ==
    \/ \E raw \in TagInputs : handleAddTag(raw)
    \/ AllQuiet /\ handleSave
    \/ \E logId \in LogIds, tags \in EditLists :
           AllQuiet /\ updateDailyLog(logId, tags)
    \/ \E c \in Slots : PrimaryOk(c)
    \/ \E c \in Slots : PrimaryFail(c)
    \/ \E c \in Slots : GetDocOk(c)
    \/ \E c \in Slots : ConnFail(c)
    \/ \E c \in Slots : CommitOk(c)

SpecJournal == Init /\ [][NextJournal]_vars

(***************************************************************************)
(* Vocabulary of the properties.                                           *)
(***************************************************************************)
NormTags(tags) == {NormalizeTag(tags[k]) : k \in 1..Len(tags)}

KnownTags ==
    UNION {NormTags(tags) : tags \in TagLists \cup VideoLists \cup EditLists}

\* no two entries of the list normalize to the same tag
PairwiseDistinct(tags) == Cardinality(NormTags(tags)) = Len(tags)

\* the stored Connections of the unordered pair {a, b}
ConnectionsFor(a, b) ==
    {id \in DOMAIN store : /\ store[id].source = SortPair(a, b)[1]
                           /\ store[id].target = SortPair(a, b)[2]}

\* the calls whose batch was committed and whose list holds both a and b
CommittedWith(a, b) ==
    {c \in Slots : calls[c].committed /\ {a, b} \subseteq NormTags(calls[c].tags)}

WeightBefore(id) == IF id \in DOMAIN store THEN store[id].weight ELSE 0

IsNormalized(s) == toLowerCase(s) = s /\ trim(s) = s

CommittedList(c, tags) == calls[c].committed /\ calls[c].tags = tags

(***************************************************************************)
(* C1. Calls run one after another: the Connection of a pair of distinct   *)
(* tags is absent while no committed call held both tags, and has weight n *)
(* after n committed calls that held both.                                 *)
(***************************************************************************)
C1_WeightCountsCooccurrences ==
    AllQuiet =>
        \A a, b \in KnownTags :
            a # b =>
                LET n == Cardinality(CommittedWith(a, b))
                    conns == ConnectionsFor(a, b)
                IN  IF n = 0
                    THEN conns = {}
                    ELSE /\ Cardinality(conns) = 1
                         /\ \A id \in conns : store[id].weight = n

(***************************************************************************)
(* C2. Keying is symmetric: a call with [A, B] followed by a call with     *)
(* [B, A], the tags possibly differing in case and surrounding blanks,     *)
(* leaves one Connection for the pair; when these are the first two calls  *)
(* it is the only document and its weight is 2.                            *)
(***************************************************************************)
Mirrored(t1, t2) ==
    /\ Len(t1) = 2 /\ Len(t2) = 2
    /\ NormalizeTag(t1[1]) = NormalizeTag(t2[2])
    /\ NormalizeTag(t1[2]) = NormalizeTag(t2[1])
    /\ NormalizeTag(t1[1]) # NormalizeTag(t1[2])

C2_SymmetricKeying ==
    \A c \in Slots :
        (/\ c + 1 \in Slots
         /\ calls[c].committed /\ calls[c + 1].committed
         /\ Mirrored(calls[c].tags, calls[c + 1].tags)) =>
            LET a == NormalizeTag(calls[c].tags[1])
                b == NormalizeTag(calls[c].tags[2])
            IN  /\ Cardinality(ConnectionsFor(a, b)) = 1
                /\ ConnectionsFor(b, a) = ConnectionsFor(a, b)
                /\ (c = 1 /\ Cardinality(Started) = 2) =>
                        /\ Cardinality(DOMAIN store) = 1
                        /\ \A id \in DOMAIN store : store[id].weight = 2

C2_Witness ==
    /\ CommittedList(1, <<sGym, sFriends>>)
    /\ CommittedList(2, <<sFriendsUp, sGymUp>>)
    /\ Cardinality(Started) = 2

(***************************************************************************)
(* C3. A call on k pairwise-distinct tags puts k*(k-1)/2 writes in its     *)
(* batch, one per unordered pair, none for k < 2; and once committed with  *)
(* k >= 2, getTagConnections of each of its tags returns a Connection to   *)
(* another tag of the list.                                                *)
(***************************************************************************)
BatchEndpoints(batch) ==
    {<<batch[k].source, batch[k].target>> : k \in 1..Len(batch)}

ListPairs(tags) ==
    {SortPair(ab[1], ab[2]) :
        ab \in {xy \in NormTags(tags) \X NormTags(tags) : xy[1] # xy[2]}}

ReflectedIn(tag, tags) ==
    LET found == TagConnections(tag)
    IN  \E k \in 1..Len(found) :
            found[k].tag \in NormTags(tags) \ {NormalizeTag(tag)}

C3_PairUpdates ==
    \A c \in Slots :
        LET call == calls[c]
            k == Len(call.tags)
        IN  (call.kind # "none" /\ PairwiseDistinct(call.tags)) =>
                /\ (call.pc = "commit" \/ call.committed) =>
                        /\ 2 * Len(call.batch) = k * (k - 1)
                        /\ BatchEndpoints(call.batch) = ListPairs(call.tags)
                /\ k < 2 => (call.batch = <<>> /\ ~call.committed)
                /\ (call.committed /\ k >= 2) =>
                        \A i \in 1..k : ReflectedIn(call.tags[i], call.tags)

(***************************************************************************)
(* C4. A list that holds the same normalized tag twice: the commit of its  *)
(* call writes no Connection from a tag to itself and changes the weight   *)
(* of each Connection it writes by exactly 1.                              *)
(***************************************************************************)
C4_NoDoubleWeight ==
    [][\A c \in Slots :
          (/\ calls[c].pc = "commit" /\ calls'[c].committed
           /\ ~PairwiseDistinct(calls[c].tags)) =>
              \A k \in 1..Len(calls[c].batch) :
                  LET id == calls[c].batch[k].id
                  IN  /\ store'[id].source # store'[id].target
                      /\ store'[id].weight = WeightBefore(id) + 1]_vars

(***************************************************************************)
(* C5. Overlapping calls lose no update: when every call started so far    *)
(* was on the pair {a, b} alone and has committed, the Connection of the   *)
(* pair has weight equal to the number of these calls.                     *)
(***************************************************************************)
C5_NoLostUpdate ==
    \A a, b \in KnownTags :
        (/\ a # b
         /\ Started # {}
         /\ CommittedWith(a, b) = Started
         /\ \A c \in Started : Len(calls[c].tags) = 2) =>
            /\ Cardinality(ConnectionsFor(a, b)) = 1
            /\ \A id \in ConnectionsFor(a, b) :
                   store[id].weight = Cardinality(Started)

(***************************************************************************)
(* C6. Every stored weight is at least 1 and no step lowers the weight of  *)
(* a stored Connection, however the calls overlap.                         *)
(***************************************************************************)
C6_WeightMonotone ==
    [][/\ \A id \in DOMAIN store' : store'[id].weight >= 1
       /\ \A id \in DOMAIN store :
              /\ id \in DOMAIN store'
              /\ store'[id].weight >= store[id].weight]_vars

(***************************************************************************)
(* C7. Every Connection written, in a batch or in the store, has           *)
(* source < target in code-unit order, both lower-cased and trimmed.       *)
(***************************************************************************)
WellOrdered(conn) ==
    /\ StrLess(conn.source, conn.target)
    /\ IsNormalized(conn.source)
    /\ IsNormalized(conn.target)

C7_SourceBeforeTarget ==
    /\ \A id \in DOMAIN store : WellOrdered(store[id])
    /\ \A c \in Slots :
           \A k \in 1..Len(calls[c].batch) : WellOrdered(calls[c].batch[k])

C7_Witness ==
    \E c, d \in Slots :
        /\ CommittedList(c, <<sGym, sFriends>>)
        /\ CommittedList(d, <<sFriendsUp, sGymUp>>)

(***************************************************************************)
(* C8. No stored Connection has the empty tag as its source or target.     *)
(***************************************************************************)
C8_NoEmptyTagRecorded ==
    \A id \in DOMAIN store :
        store[id].source # <<>> /\ store[id].target # <<>>

(***************************************************************************)
(* C9. A save or an edit of a log that has ended threw exactly when its    *)
(* log write failed; when recording the connections failed, the log write  *)
(* is committed, the log is stored and the operation returned success.     *)
(***************************************************************************)
C9_BestEffortRecording ==
    \A c \in Slots :
        LET call == calls[c]
        IN  (call.kind \in {"create", "update"} /\ call.pc = "done") =>
                /\ call.result = "thrown" <=> call.primary = "failed"
                /\ call.connError =>
                        /\ call.primary = "committed"
                        /\ call.result = "success"
                        /\ call.logId \in DOMAIN dailyLogs

C9_Witness ==
    \E c, d \in Slots :
        /\ calls[c].kind = "create" /\ calls[c].connError
        /\ calls[d].kind = "update" /\ calls[d].connError
        /\ calls[c].pc = "done" /\ calls[d].pc = "done"

(***************************************************************************)
(* C10. getAllTagConnections(minWeight) returns the stored Connections of  *)
(* weight >= minWeight, each once, by weight non-increasing; after the     *)
(* calls [gym, friends], [gym, coffee], [gym, friends] the weights are 2   *)
(* and 1 and getAllTagConnections(2) returns one Connection (these three   *)
(* being the only calls made).                                             *)
(***************************************************************************)
GymScenario ==
    /\ CommittedList(1, <<sGym, sFriends>>)
    /\ CommittedList(2, <<sGym, sCoffee>>)
    /\ CommittedList(3, <<sGym, sFriends>>)
    /\ Cardinality(Started) = 3

C10_AllConnectionsQuery ==
    LET found == queryResult.connections
        m == queryResult.minWeight
    IN  /\ queryResult # NoQuery =>
            /\ {found[k].id : k \in 1..Len(found)}
                   = {id \in DOMAIN store : store[id].weight >= m}
            /\ \A j, k \in 1..Len(found) : j # k => found[j].id # found[k].id
            /\ \A k \in 1..Len(found) :
                   /\ found[k].source = store[found[k].id].source
                   /\ found[k].target = store[found[k].id].target
                   /\ found[k].weight = store[found[k].id].weight
            /\ \A j, k \in 1..Len(found) :
                   j < k => found[j].weight >= found[k].weight
        /\ GymScenario =>
            /\ store[generateConnectionId(sFriends, sGym)].weight = 2
            /\ store[generateConnectionId(sCoffee, sGym)].weight = 1
            /\ m = 2 => Len(found) = 1

C10_Witness ==
    /\ GymScenario
    /\ queryResult.minWeight = 2
    /\ Len(queryResult.connections) = 1

(***************************************************************************)
(* The registry of dimensions (constants/dimensions.js). Names are strings *)
(* of code units like the tags.                                            *)
(***************************************************************************)
\* "Career"
CAREER == <<67, 97, 114, 101, 101, 114>>

\* "Spiritual"
SPIRITUAL == <<83, 112, 105, 114, 105, 116, 117, 97, 108>>

\* "Health"
HEALTH == <<72, 101, 97, 108, 116, 104>>

\* "Social"
SOCIAL == <<83, 111, 99, 105, 97, 108>>

\* "Intellectual"
INTELLECTUAL == <<73, 110, 116, 101, 108, 108, 101, 99, 116, 117, 97, 108>>

\* "Entertainment"
ENTERTAINMENT == <<69, 110, 116, 101, 114, 116, 97, 105, 110, 109, 101, 110, 116>>

\* "Unassigned"
UNASSIGNED == <<85, 110, 97, 115, 115, 105, 103, 110, 101, 100>>

\* getDimensionNames(): the keys of DIMENSION_CONFIG without Unassigned
getDimensionNames ==
    <<CAREER, SPIRITUAL, HEALTH, SOCIAL, INTELLECTUAL, ENTERTAINMENT>>

(***************************************************************************)
(* buildGraphFromCategories: the category graph of the Mind Map.           *)
(***************************************************************************)
\* videos in one list given to buildGraphFromCategories
MaxVideos == 3

\* a video without a category (video.category is missing or '')
NoCategory == <<>>

\* a video without a watch time (video.time is null)
NoTime == 0

\* one minute, in the milliseconds of Date.prototype.getTime
Minute == 60 * 1000

\* categories of the stored videos: validated names of the registry, or none
VideoCategories == {NoCategory, ENTERTAINMENT, HEALTH}

\* watch times: none, a time, and the times 5, 30 and 45 minutes after it
WatchTimes ==
    {NoTime, 60 * Minute, 65 * Minute, 90 * Minute, 105 * Minute}

RECURSIVE DecimalString(_)
\* `${n}` of a non-negative integer
DecimalString(n) ==
    IF n < 10 THEN <<48 + n>>
    ELSE DecimalString(n \div 10) \o <<48 + (n % 10)>>

\* the k-th title of an import: "t<k>"
TitleOf(k) == <<116>> \o DecimalString(k)

\* the lists of at most MaxVideos videos, in any order, titled by position
VideoInputs ==
    {[k \in 1..Len(l) |->
          [title |-> TitleOf(k), category |-> l[k][1], time |-> l[k][2]]] :
        l \in ListsOf(VideoCategories \X WatchTimes, MaxVideos)}

\* video.category || 'Entertainment'
CategoryOf(video) ==
    IF video.category = NoCategory THEN ENTERTAINMENT ELSE video.category

RECURSIVE CountCategories(_, _)
\* categoryCount after the first k videos, as the entries [category, count]
\* of Object.entries (keys in the order they were first set)
CountCategories(videos, k) ==
    IF k = 0 THEN <<>>
    ELSE LET counted == CountCategories(videos, k - 1)
             cat == CategoryOf(videos[k])
         IN  IF \E e \in 1..Len(counted) : counted[e].category = cat
             THEN [e \in 1..Len(counted) |->
                      IF counted[e].category = cat
                      THEN [counted[e] EXCEPT !.count = @ + 1]
                      ELSE counted[e]]
             ELSE Append(counted, [category |-> cat, count |-> 1])

\* the category node with the category's name as its id
CategoryNodeNamedId(entry) ==
    [id |-> entry.category, name |-> entry.category,
     category |-> entry.category, val |-> entry.count * 10,
     frequency |-> entry.count, type |-> "Category", isMainNode |-> TRUE]

CategoryNode(entry) ==
    [id |-> toLowerCase(entry.category), name |-> entry.category,
     category |-> entry.category, val |-> entry.count * 10,
     frequency |-> entry.count, type |-> "Category", isMainNode |-> TRUE]

CategoryNodes(videos) ==
    LET categoryCount == CountCategories(videos, Len(videos))
    IN  [e \in 1..Len(categoryCount) |-> CategoryNode(categoryCount[e])]

\* video.time ? new Date(video.time).getTime() : 0
TimeOf(video) == IF video.time = NoTime THEN 0 ELSE video.time

RECURSIVE InsertByTime(_, _)
\* insert video after the elements that do not sort after it (a stable sort
\* by the comparator (a, b) => timeA - timeB)
InsertByTime(sorted, video) ==
    IF sorted = <<>> THEN <<video>>
    ELSE IF TimeOf(Head(sorted)) <= TimeOf(video)
         THEN <<Head(sorted)>> \o InsertByTime(Tail(sorted), video)
         ELSE <<video>> \o sorted

\* the videos in the order given
KeepOrder(videos) == videos

RECURSIVE SortByTime(_)
SortByTime(videos) ==
    IF videos = <<>> THEN <<>>
    ELSE InsertByTime(SortByTime(SubSeq(videos, 1, Len(videos) - 1)),
                      videos[Len(videos)])

\* `video_${idx}`, idx counting from 0
VideoNodeId(idx) == <<118, 105, 100, 101, 111, 95>> \o DecimalString(idx)

\* title.substring(0, 50)
Substring50(title) ==
    SubSeq(title, 1, IF Len(title) < 50 THEN Len(title) ELSE 50)

\* the node of the video at position k (from 1) of the sorted list
VideoNode(video, k) ==
    [id |-> VideoNodeId(k - 1), name |-> Substring50(video.title),
     fullTitle |-> video.title, category |-> CategoryOf(video), val |-> 3,
     type |-> "Video", isMainNode |-> FALSE, time |-> video.time]

VideoNodes(sorted) == [k \in 1..Len(sorted) |-> VideoNode(sorted[k], k)]

\* linkMap is a Map: its entries [key, value] in insertion order
MapHas(linkMap, key) == \E e \in 1..Len(linkMap) : linkMap[e].key = key

MapSet(linkMap, key, value) ==
    IF MapHas(linkMap, key)
    THEN [e \in 1..Len(linkMap) |->
             IF linkMap[e].key = key
             THEN [key |-> key, value |-> value] ELSE linkMap[e]]
    ELSE Append(linkMap, [key |-> key, value |-> value])

MapValues(linkMap) == [e \in 1..Len(linkMap) |-> linkMap[e].value]

\* the link of the video at position k to its category
CategoryLink(video, k) ==
    [source |-> VideoNodeId(k - 1), target |-> toLowerCase(CategoryOf(video)),
     weight |-> 1, value |-> 1]

\* `${nodeId}_${cat.toLowerCase()}`
CategoryLinkKey(video, k) ==
    VideoNodeId(k - 1) \o <<95>> \o toLowerCase(CategoryOf(video))

RECURSIVE CategoryLinks(_, _)
\* linkMap after the forEach over the first k sorted videos
CategoryLinks(sorted, k) ==
    IF k = 0 THEN <<>>
    ELSE MapSet(CategoryLinks(sorted, k - 1),
                CategoryLinkKey(sorted[k], k), CategoryLink(sorted[k], k))

\* a window of 60 minutes
TemporalWindowOfAnHour == 60 * 60 * 1000

TEMPORAL_WINDOW_MS == 30 * 60 * 1000

\* the link from the later video to the earlier one
TemporalLinkReversed(i, j) ==
    [source |-> VideoNodeId(j - 1), target |-> VideoNodeId(i - 1),
     weight |-> 2, value |-> 2, type |-> "temporal"]

TemporalLink(i, j) ==
    [source |-> VideoNodeId(i - 1), target |-> VideoNodeId(j - 1),
     weight |-> 2, value |-> 2, type |-> "temporal"]

\* `${nodeIdA}_${nodeIdB}`
TemporalLinkKey(i, j) == VideoNodeId(i - 1) \o <<95>> \o VideoNodeId(j - 1)

RECURSIVE LookAhead(_, _, _, _)
\* the inner loop from position j on, for the video at position i
LookAhead(sorted, i, j, linkMap) ==
    IF j > Len(sorted) THEN linkMap
    ELSE LET timeA == TimeOf(sorted[i])
             timeB == TimeOf(sorted[j])
             timeDiff == timeB - timeA
         IN  IF timeB = 0 THEN LookAhead(sorted, i, j + 1, linkMap)
             ELSE IF timeDiff > TEMPORAL_WINDOW_MS THEN linkMap
             ELSE IF /\ ~MapHas(linkMap, TemporalLinkKey(i, j))
                     /\ ~MapHas(linkMap, TemporalLinkKey(j, i))
                  THEN LookAhead(sorted, i, j + 1,
                                 MapSet(linkMap, TemporalLinkKey(i, j),
                                        TemporalLink(i, j)))
                  ELSE LookAhead(sorted, i, j + 1, linkMap)

RECURSIVE TemporalLinking(_, _, _)
\* the outer loop from position i on
TemporalLinking(sorted, i, linkMap) ==
    IF i > Len(sorted) - 1 THEN linkMap
    ELSE IF TimeOf(sorted[i]) = 0
         THEN TemporalLinking(sorted, i + 1, linkMap)
         ELSE TemporalLinking(sorted, i + 1,
                              LookAhead(sorted, i, i + 1, linkMap))

\* buildGraphFromCategories with temporal linking
buildGraphFromCategories(videos) ==
    LET sortedVideos == SortByTime(videos)
        linkMap == TemporalLinking(sortedVideos, 1,
                       CategoryLinks(sortedVideos, Len(sortedVideos)))
    IN  [nodes |-> CategoryNodes(videos) \o VideoNodes(sortedVideos),
         links |-> MapValues(linkMap)]

\* the node and the link of the video at position k (from 1) of the list
\* given, in the builder without temporal linking
PlainVideoNode(video, k) ==
    [id |-> VideoNodeId(k - 1), name |-> Substring50(video.title),
     fullTitle |-> video.title, category |-> CategoryOf(video), val |-> 2,
     type |-> "Video", isMainNode |-> FALSE]

\* buildGraphFromCategories of categorizedVideoService.js (no linking)
buildGraphFromCategoriesPlain(videos) ==
    [nodes |-> CategoryNodes(videos)
                   \o [k \in 1..Len(videos) |-> PlainVideoNode(videos[k], k)],
     links |-> [k \in 1..Len(videos) |-> CategoryLink(videos[k], k)]]

(***************************************************************************)
(* MindMap page: the noise filter (the filteredGraphData memo).            *)
(***************************************************************************)
\* the cap on the filtered nodes. The page's cap is 300; the model keeps
\* the code and scales the number so that graphs of a few nodes exceed it
NodeCap == 3

\* nodes in a graph given to the filter
MaxNodes == 5

\* positions of the threshold slider that the model moves through
MaxNodeWeight == 3

\* node.frequency || 0
FrequencyOf(node) ==
    IF "frequency" \in DOMAIN node THEN node.frequency ELSE 0

\* the callback of graphData.nodes.filter
KeepsNode(node, minFrequency) ==
    IF node.isMainNode \/ node.type = "Category" THEN TRUE
    ELSE IF node.type = "Video" THEN TRUE
    ELSE FrequencyOf(node) >= minFrequency

RECURSIVE InsertByFrequency(_, _)
\* insert node after the elements that do not sort after it (a stable sort
\* by the comparator (a, b) => (b.frequency || 0) - (a.frequency || 0))
InsertByFrequency(sorted, node) ==
    IF sorted = <<>> THEN <<node>>
    ELSE IF FrequencyOf(Head(sorted)) >= FrequencyOf(node)
         THEN <<Head(sorted)>> \o InsertByFrequency(Tail(sorted), node)
         ELSE <<node>> \o sorted

RECURSIVE SortByFrequency(_)
SortByFrequency(nodes) ==
    IF nodes = <<>> THEN <<>>
    ELSE InsertByFrequency(SortByFrequency(SubSeq(nodes, 1, Len(nodes) - 1)),
                           nodes[Len(nodes)])

\* if (filteredNodes.length > 300) sort by frequency and slice(0, 300)
CapNodes(filteredNodes) ==
    IF Len(filteredNodes) > NodeCap
    THEN SubSeq(SortByFrequency(filteredNodes), 1, NodeCap)
    ELSE filteredNodes

\* a link is kept when one of its ends is a kept node
KeepsLinkOfEitherEnd(link, validNodeIds) ==
    link.source \in validNodeIds \/ link.target \in validNodeIds

\* the callback of graphData.links.filter
KeepsLink(link, validNodeIds) ==
    link.source \in validNodeIds /\ link.target \in validNodeIds

\* the filter with the valid ids taken before the cap is applied
NoiseFilterIdsBeforeCap(graph, minFrequency) ==
    IF Len(graph.nodes) = 0 THEN [nodes |-> <<>>, links |-> <<>>]
    ELSE LET passed == SelectSeq(graph.nodes,
                                 LAMBDA node : KeepsNode(node, minFrequency))
             validNodeIds == {passed[k].id : k \in 1..Len(passed)}
         IN  [nodes |-> CapNodes(passed),
              links |-> SelectSeq(graph.links,
                                  LAMBDA link : KeepsLink(link, validNodeIds))]

\* the value of the filteredGraphData memo for a graph and a threshold
NoiseFilter(graph, minFrequency) ==
    IF Len(graph.nodes) = 0 THEN [nodes |-> <<>>, links |-> <<>>]
    ELSE LET filteredNodes ==
                 CapNodes(SelectSeq(graph.nodes,
                                    LAMBDA node : KeepsNode(node, minFrequency)))
             validNodeIds ==
                 {filteredNodes[k].id : k \in 1..Len(filteredNodes)}
         IN  [nodes |-> filteredNodes,
              links |-> SelectSeq(graph.links,
                                  LAMBDA link : KeepsLink(link, validNodeIds))]

\* setGraphData(graph) and the re-render that follows it
setGraphData(graph, source) ==
    /\ graphSource = "none"
    /\ graphData' = graph
    /\ graphSource' = source
    /\ filteredGraphData' = NoiseFilter(graph, minNodeWeight)
    /\ UNCHANGED <<categorizedVideos, minNodeWeight, connVars, scoreVars, restVars>>

\* loadGraphData with the builder of categorizedVideoService.js ("plain") or
\* with the builder that links by time ("temporal")
loadGraphData(builder) ==
    /\ Len(categorizedVideos) > 0
    /\ setGraphData(IF builder = "temporal"
                    THEN buildGraphFromCategories(categorizedVideos)
                    ELSE buildGraphFromCategoriesPlain(categorizedVideos),
                    builder)

\* the slider: setMinNodeWeight(value) and the re-render that follows it
setMinNodeWeight(value) ==
    /\ value # minNodeWeight
    /\ minNodeWeight' = value
    /\ filteredGraphData' = NoiseFilter(graphData, value)
    /\ UNCHANGED <<categorizedVideos, graphSource, graphData, connVars,
                   scoreVars, restVars>>

\* nodes of a graph that is no category graph: tags with a usage frequency
\* ("a", "b", "c", and "d" without a frequency)
TagNodes ==
    { [id |-> <<97>>, name |-> <<97>>, frequency |-> 1, type |-> "Tag",
       isMainNode |-> FALSE],
      [id |-> <<98>>, name |-> <<98>>, frequency |-> 2, type |-> "Tag",
       isMainNode |-> FALSE],
      [id |-> <<99>>, name |-> <<99>>, frequency |-> 3, type |-> "Tag",
       isMainNode |-> FALSE],
      [id |-> <<100>>, name |-> <<100>>, type |-> "Tag",
       isMainNode |-> FALSE] }

\* the nodes of the category graph of two videos of one category
BuiltNodes ==
    LET built == buildGraphFromCategoriesPlain(
                     <<[title |-> TitleOf(1), category |-> HEALTH,
                        time |-> NoTime],
                       [title |-> TitleOf(2), category |-> HEALTH,
                        time |-> NoTime]>>).nodes
    IN  {built[k] : k \in 1..Len(built)}

\* the lists of at most n different nodes of a set
RECURSIVE NodeLists(_, _)
NodeLists(S, n) ==
    IF n = 0 THEN {<<>>}
    ELSE LET shorter == NodeLists(S, n - 1)
         IN  shorter \cup
             UNION {{Append(l, x) :
                        x \in {y \in S : \A k \in 1..Len(l) : l[k] # y}} :
                    l \in shorter}

\* a link between every two nodes of the list, and one to a node that is
\* not in the graph ("zz")
RECURSIVE LinksAmong(_, _)
LinksAmong(nodes, k) ==
    IF k = 0 THEN <<[source |-> <<122, 122>>, target |-> <<122, 122>>,
                     weight |-> 1, value |-> 1]>>
    ELSE LinksAmong(nodes, k - 1)
         \o [j \in 1..(k - 1) |->
                [source |-> nodes[k].id, target |-> nodes[j].id,
                 weight |-> 1, value |-> 1]]

\* the graphs the filter is given
GraphInputs ==
    {[nodes |-> l, links |-> LinksAmong(l, Len(l))] :
        l \in NodeLists(TagNodes \cup BuiltNodes, MaxNodes) \ {<<>>}}

(***************************************************************************)
(* Specifications of the Mind Map.                                         *)
(***************************************************************************)
\* buildGraphFromCategories over every list of videos
InitGraph ==
    /\ Init!1 /\ Init!2 /\ Init!3 /\ Init!4 /\ Init!5
    /\ categorizedVideos \in VideoInputs
    /\ graphSource = "none"
    /\ graphData = [nodes |-> <<>>, links |-> <<>>]
    /\ minNodeWeight = 1
    /\ filteredGraphData = [nodes |-> <<>>, links |-> <<>>]
    /\ tagMappings = <<>>
    /\ windowLogs = <<>>
    /\ trajectory = [null |-> TRUE]
    /\ RestInit

NextGraph == \E builder \in {"plain", "temporal"} : loadGraphData(builder)

SpecGraph == InitGraph /\ [][NextGraph]_vars

\* the noise filter over the graphs of GraphInputs and the thresholds
NextFilter ==
    \/ \E graph \in GraphInputs : setGraphData(graph, "given")
    \/ \E value \in 1..MaxNodeWeight : setMinNodeWeight(value)

SpecFilter == Init /\ [][NextFilter]_vars

(***************************************************************************)
(* Vocabulary of the properties of the category graph.                     *)
(***************************************************************************)
IsTemporal(link) == "type" \in DOMAIN link /\ link.type = "temporal"

\* positions of the temporal links of graphData
TemporalAt == {k \in 1..Len(graphData.links) : IsTemporal(graphData.links[k])}

\* positions of the other links (video -> category)
MembershipAt == (1..Len(graphData.links)) \ TemporalAt

NodeIds == {graphData.nodes[k].id : k \in 1..Len(graphData.nodes)}

VideoNodesOf(graph) ==
    {graph.nodes[k] : k \in {n \in 1..Len(graph.nodes) :
                                graph.nodes[n].type = "Video"}}

CategoryNodesOf(graph) ==
    {graph.nodes[k] : k \in {n \in 1..Len(graph.nodes) :
                                graph.nodes[n].type = "Category"}}

\* the video nodes that stand for the item (the titles of a list differ)
NodesOfItem(item) ==
    {node \in VideoNodesOf(graphData) : node.fullTitle = item.title}

\* positions of the temporal links that join the two ids, in any direction
TemporalBetween(id1, id2) ==
    {k \in TemporalAt :
        \/ graphData.links[k].source = id1 /\ graphData.links[k].target = id2
        \/ graphData.links[k].source = id2 /\ graphData.links[k].target = id1}

\* the time of the item behind a video node id
ItemTime(id) ==
    LET item == CHOOSE v \in {categorizedVideos[k] :
                                 k \in 1..Len(categorizedVideos)} :
                    \E node \in NodesOfItem(v) : node.id = id
    IN  item.time

IsVideoId(id) ==
    \E k \in 1..Len(categorizedVideos) :
        \E node \in NodesOfItem(categorizedVideos[k]) : node.id = id

(***************************************************************************)
(* C11. In the graph built with temporal linking no temporal edge joins    *)
(* two items whose times differ by more than 30 minutes, and every two     *)
(* items are joined by at most one temporal edge, whatever its direction.  *)
(***************************************************************************)
C11_WindowAndNoReverse ==
    graphSource = "temporal" =>
        /\ \A k \in TemporalAt :
               LET link == graphData.links[k]
               IN  /\ IsVideoId(link.source) /\ IsVideoId(link.target)
                   /\ ItemTime(link.target) - ItemTime(link.source)
                          <= 30 * Minute
                   /\ ItemTime(link.source) - ItemTime(link.target)
                          <= 30 * Minute
        /\ \A id1, id2 \in NodeIds :
               Cardinality(TemporalBetween(id1, id2)) <= 1

\* three videos 0, 5 and 45 minutes after a time: one edge, the others apart
C11_Witness ==
    /\ graphSource = "temporal"
    /\ Len(categorizedVideos) = 3
    /\ categorizedVideos[1].time = 105 * Minute
    /\ categorizedVideos[2].time = 60 * Minute
    /\ categorizedVideos[3].time = 65 * Minute
    /\ Cardinality(TemporalAt) = 1

\* the items of the list given to the builder
Items == {categorizedVideos[k] : k \in 1..Len(categorizedVideos)}

\* the membership links that leave a node
MembershipFrom(id) ==
    {k \in MembershipAt : graphData.links[k].source = id}

\* items without a time get no temporal edge, and are nodes of the graph
\* with their membership edge
UntimedItemsKept ==
    \A item \in Items :
        item.time = NoTime =>
            /\ Cardinality(NodesOfItem(item)) = 1
            /\ \A node \in NodesOfItem(item) :
                   /\ \A k \in TemporalAt :
                          /\ graphData.links[k].source # node.id
                          /\ graphData.links[k].target # node.id
                   /\ \E k \in MembershipFrom(node.id) :
                          /\ graphData.links[k].target
                                 = toLowerCase(CategoryOf(item))
                          /\ graphData.links[k].target \in NodeIds

C13_TemporalLinkingComplete ==
    graphSource = "temporal" =>
        \A i, j \in 1..Len(categorizedVideos) :
            LET first == categorizedVideos[i]
                second == categorizedVideos[j]
                apart == second.time - first.time
            IN  (first.time # NoTime /\ second.time # NoTime /\ apart > 0) =>
                    /\ Cardinality(NodesOfItem(first)) = 1
                    /\ Cardinality(NodesOfItem(second)) = 1
                    /\ \A a \in NodesOfItem(first), b \in NodesOfItem(second) :
                           /\ apart <= 30 * Minute =>
                                  /\ Cardinality(TemporalBetween(a.id, b.id)) = 1
                                  /\ \A k \in TemporalBetween(a.id, b.id) :
                                         graphData.links[k].weight = 2
                           /\ apart > 30 * Minute =>
                                  TemporalBetween(a.id, b.id) = {}

\* a video, one 45 minutes before it and one 5 minutes after that one: the
\* scan of the earliest passes the second and breaks at the last
C13_Witness ==
    /\ graphSource = "temporal"
    /\ Len(categorizedVideos) = 3
    /\ categorizedVideos[1].time = 105 * Minute
    /\ categorizedVideos[2].time = 60 * Minute
    /\ categorizedVideos[3].time = 65 * Minute
    /\ Len(graphData.links) = 4
    /\ \E k \in TemporalAt : graphData.links[k].weight = 2

\* two videos 5 minutes apart and one without a time: exactly one edge
C13_Scenario ==
    /\ graphSource = "temporal"
    /\ Len(categorizedVideos) = 3
    /\ categorizedVideos[1].time = 65 * Minute
    /\ categorizedVideos[2].time = NoTime
    /\ categorizedVideos[3].time = 60 * Minute
    /\ Cardinality(TemporalAt) = 1

(***************************************************************************)
(* C14. The graph of either builder has pairwise different node ids, every *)
(* edge joins ids of its nodes, there is one Category node per category of *)
(* the list, with val = 10 x the number of its items, and from every item  *)
(* node one membership edge of weight 1 to the node of its category.       *)
(***************************************************************************)
\* the items of a category
ItemsOf(category) == {k \in 1..Len(categorizedVideos) :
                         CategoryOf(categorizedVideos[k]) = category}

CategoriesGiven ==
    {CategoryOf(categorizedVideos[k]) : k \in 1..Len(categorizedVideos)}

C14_WellFormedGraph ==
    graphSource \in {"plain", "temporal"} =>
        /\ \A j, k \in 1..Len(graphData.nodes) :
               j # k => graphData.nodes[j].id # graphData.nodes[k].id
        /\ \A k \in 1..Len(graphData.links) :
               /\ graphData.links[k].source \in NodeIds
               /\ graphData.links[k].target \in NodeIds
        /\ {node.category : node \in CategoryNodesOf(graphData)}
               = CategoriesGiven
        /\ \A category \in CategoriesGiven :
               /\ Cardinality({k \in 1..Len(graphData.nodes) :
                      /\ graphData.nodes[k].type = "Category"
                      /\ graphData.nodes[k].category = category}) = 1
               /\ \A node \in CategoryNodesOf(graphData) :
                      node.category = category =>
                          /\ node.val = 10 * Cardinality(ItemsOf(category))
                          /\ node.isMainNode
        /\ Cardinality(VideoNodesOf(graphData)) = Len(categorizedVideos)
        /\ \A item \in Items : Cardinality(NodesOfItem(item)) = 1
        /\ \A node \in VideoNodesOf(graphData) :
               /\ Cardinality(MembershipFrom(node.id)) = 1
               /\ \A k \in MembershipFrom(node.id) :
                      /\ graphData.links[k].weight = 1
                      /\ \E main \in CategoryNodesOf(graphData) :
                             /\ main.id = graphData.links[k].target
                             /\ main.category = node.category
               /\ \E item \in Items :
                      /\ node.fullTitle = item.title
                      /\ node.category = CategoryOf(item)

\* three videos, one without a category and one of each category: five
\* nodes, by the builder of the Mind Map
C14_Witness ==
    /\ graphSource = "plain"
    /\ Len(categorizedVideos) = 3
    /\ categorizedVideos[1].category = NoCategory
    /\ categorizedVideos[2].category = HEALTH
    /\ categorizedVideos[3].category = ENTERTAINMENT
    /\ Len(graphData.nodes) = 5
    /\ Len(graphData.links) = 3

(***************************************************************************)
(* Vocabulary of the properties of the noise filter.                       *)
(***************************************************************************)
\* nodes the filter always shows: main or Category nodes, and Video nodes
IsExempt(node) ==
    node.isMainNode \/ node.type = "Category" \/ node.type = "Video"

FrequencyIn(node) == IF "frequency" \in DOMAIN node THEN node.frequency ELSE 0

NodesIn(graph) == {graph.nodes[k] : k \in 1..Len(graph.nodes)}

IdsIn(graph) == {graph.nodes[k].id : k \in 1..Len(graph.nodes)}

\* the links of a graph, in order, whose two ends are among the ids
LinksWithin(graph, ids) ==
    SelectSeq(graph.links,
              LAMBDA link : link.source \in ids /\ link.target \in ids)

\* the filter ran on a graph with nodes
Filtered == graphSource = "given"

(***************************************************************************)
(* C15. The filtered graph holds only nodes of the graph that are main or  *)
(* Category nodes, Video nodes, or of frequency >= minNodeWeight, and its  *)
(* edges are exactly the edges of the graph whose two ends are ids of      *)
(* nodes it holds.                                                         *)
(***************************************************************************)
C15_FilteredNodesAndEdges ==
    Filtered =>
        /\ NodesIn(filteredGraphData) \subseteq NodesIn(graphData)
        /\ \A node \in NodesIn(filteredGraphData) :
               IsExempt(node) \/ FrequencyIn(node) >= minNodeWeight
        /\ filteredGraphData.links
               = LinksWithin(graphData, IdsIn(filteredGraphData))

\* threshold 2 on the tags a (once), b (twice) and c: a is dropped with its
\* two edges, b and c stay with theirs
C15_Witness ==
    /\ Filtered
    /\ minNodeWeight = 2
    /\ Len(graphData.nodes) = 3
    /\ IdsIn(graphData) = {<<97>>, <<98>>, <<99>>}
    /\ IdsIn(filteredGraphData) = {<<98>>, <<99>>}
    /\ Len(graphData.links) = 4
    /\ Len(filteredGraphData.links) = 1

(***************************************************************************)
(* C16. When more nodes pass the threshold than the cap allows, only nodes *)
(* that are not exempt are cut, those of the lowest frequency first: every *)
(* main or Category node and every Video node of the graph is still in the *)
(* filtered graph (which may then hold more nodes than the cap).           *)
(***************************************************************************)
C16_ExemptNeverTruncated ==
    Filtered =>
        /\ \A node \in NodesIn(graphData) :
               IsExempt(node) => node \in NodesIn(filteredGraphData)
        /\ \A cut \in NodesIn(graphData) \ NodesIn(filteredGraphData) :
               \A kept \in NodesIn(filteredGraphData) :
                   IsExempt(kept) \/ FrequencyIn(kept) >= FrequencyIn(cut)

(***************************************************************************)
(* C17. The noise filter is idempotent: filtering the filtered graph with  *)
(* the same threshold gives the same nodes, in the same order, and the     *)
(* same edges, also when the cap cut nodes in the first pass.              *)
(***************************************************************************)
C17_FilterIdempotent ==
    Filtered =>
        NoiseFilter(filteredGraphData, minNodeWeight) = filteredGraphData

\* five nodes pass the threshold, the cap cuts two and reorders the rest
C17_Witness ==
    /\ Filtered
    /\ Len(graphData.nodes) = MaxNodes
    /\ Len(filteredGraphData.nodes) = NodeCap
    /\ filteredGraphData.nodes # SubSeq(graphData.nodes, 1, NodeCap)
    /\ Len(filteredGraphData.links) > 0
    /\ Len(filteredGraphData.links) < Len(graphData.links) - 1

(***************************************************************************)
(* Trajectory scores of the dashboard: calculateTrajectory.                *)
(***************************************************************************)
\* TAG_DIMENSION_MAP: the pairs <<tag, dimension>>
TAG_DIMENSION_MAP ==
    { <<<<119, 111, 114, 107>>, CAREER>>,   \* work
      <<<<112, 114, 111, 106, 101, 99, 116>>, CAREER>>,   \* project
      <<<<109, 101, 101, 116, 105, 110, 103>>, CAREER>>,   \* meeting
      <<<<115, 107, 105, 108, 108>>, CAREER>>,   \* skill
      <<<<99, 111, 100, 105, 110, 103>>, CAREER>>,   \* coding
      <<<<98, 117, 115, 105, 110, 101, 115, 115>>, CAREER>>,   \* business
      <<<<112, 114, 111, 103, 114, 97, 109, 109, 105, 110, 103>>, CAREER>>,   \* programming
      <<<<109, 101, 100, 105, 116, 97, 116, 105, 111, 110>>, SPIRITUAL>>,   \* meditation
      <<<<112, 114, 97, 121, 101, 114>>, SPIRITUAL>>,   \* prayer
      <<<<114, 101, 102, 108, 101, 99, 116, 105, 111, 110>>, SPIRITUAL>>,   \* reflection
      <<<<106, 111, 117, 114, 110, 97, 108, 105, 110, 103>>, SPIRITUAL>>,   \* journaling
      <<<<103, 114, 97, 116, 105, 116, 117, 100, 101>>, SPIRITUAL>>,   \* gratitude
      <<<<109, 105, 110, 100, 102, 117, 108, 110, 101, 115, 115>>, SPIRITUAL>>,   \* mindfulness
      <<<<112, 104, 105, 108, 111, 115, 111, 112, 104, 121>>, SPIRITUAL>>,   \* philosophy
      <<<<101, 120, 101, 114, 99, 105, 115, 101>>, HEALTH>>,   \* exercise
      <<<<103, 121, 109>>, HEALTH>>,   \* gym
      <<<<114, 117, 110, 110, 105, 110, 103>>, HEALTH>>,   \* running
      <<<<121, 111, 103, 97>>, HEALTH>>,   \* yoga
      <<<<104, 101, 97, 108, 116, 104>>, HEALTH>>,   \* health
      <<<<115, 108, 101, 101, 112>>, HEALTH>>,   \* sleep
      <<<<110, 117, 116, 114, 105, 116, 105, 111, 110>>, HEALTH>>,   \* nutrition
      <<<<115, 112, 111, 114, 116, 115>>, HEALTH>>,   \* sports
      <<<<102, 97, 109, 105, 108, 121>>, SOCIAL>>,   \* family
      <<<<102, 114, 105, 101, 110, 100, 115>>, SOCIAL>>,   \* friends
      <<<<99, 111, 109, 109, 117, 110, 105, 116, 121>>, SOCIAL>>,   \* community
      <<<<114, 101, 108, 97, 116, 105, 111, 110, 115, 104, 105, 112>>, SOCIAL>>,   \* relationship
      <<<<110, 101, 116, 119, 111, 114, 107, 105, 110, 103>>, SOCIAL>>,   \* networking
      <<<<115, 111, 99, 105, 97, 108>>, SOCIAL>>,   \* social
      <<<<101, 118, 101, 110, 116>>, SOCIAL>>,   \* event
      <<<<108, 101, 97, 114, 110, 105, 110, 103>>, INTELLECTUAL>>,   \* learning
      <<<<114, 101, 97, 100, 105, 110, 103>>, INTELLECTUAL>>,   \* reading
      <<<<98, 111, 111, 107, 115>>, INTELLECTUAL>>,   \* books
      <<<<101, 100, 117, 99, 97, 116, 105, 111, 110>>, INTELLECTUAL>>,   \* education
      <<<<115, 99, 105, 101, 110, 99, 101>>, INTELLECTUAL>>,   \* science
      <<<<104, 105, 115, 116, 111, 114, 121>>, INTELLECTUAL>> }   \* history

\* getDimensionFromTag: TAG_DIMENSION_MAP[normalizedTag] || 'Unassigned'
getDimensionFromTag(tag) ==
    LET normalizedTag == trim(toLowerCase(tag))
        found == {entry \in TAG_DIMENSION_MAP : entry[1] = normalizedTag}
    IN  IF found = {} THEN UNASSIGNED ELSE (CHOOSE entry \in found : TRUE)[2]

\* daily logs of the window in one behaviour
MaxLogs == 3

\* "work", "meditation", "books"
sWork == <<119, 111, 114, 107>>
sMeditation == <<109, 101, 100, 105, 116, 97, 116, 105, 111, 110>>
sBooks == <<98, 111, 111, 107, 115>>

\* "Physical", a key of weightedScores
sPhysical == <<80, 104, 121, 115, 105, 99, 97, 108>>

\* "Unknown", the dimension updateTagCategories gives a new mapping
sUnknown == <<85, 110, 107, 110, 111, 119, 110>>

\* "[object Object]", the property key an object is converted to
sObjectObject == <<91, 111, 98, 106, 101, 99, 116, 32, 79, 98, 106, 101, 99, 116, 93>>

\* a mapping value is a string (the format of the first tagMappingService)
\* or an object
StringValue(str) == [string |-> TRUE, value |-> str]

ObjectValue(obj) == [string |-> FALSE, value |-> obj]

\* the tags of the logs that are saved
ScoreLogs ==
    { <<sWork, sMeditation, sFriends, sGym>>, <<sFriends, sGymUp>>,
      <<sWork, sMeditation, sFriends>>, <<sBooks, sCoffee>> }

\* the tags the user maps, and the dimensions and types chosen
MappedTags == {sGymUp, sCoffee}

ChosenDimensions == {CAREER, HEALTH}

\* the obj[key] = value of a mappings object
PutMapping(mappings, key, value) ==
    [k \in DOMAIN mappings \cup {key} |->
        IF k = key THEN value ELSE mappings[k]]

\* a daily log that getLogsByDateRange returns: saved within the window
createLogInWindow(tags) ==
    /\ "null" \in DOMAIN trajectory
    /\ Len(windowLogs) < MaxLogs
    /\ windowLogs' = Append(windowLogs, tags)
    /\ UNCHANGED <<tagMappings, trajectory, connVars, graphVars, restVars>>

\* saveTagMapping of tagMappingService.js: a string becomes {dimension, type}
saveTagMapping(tag, dimensionOrConfig) ==
    LET normalizedTag == trim(toLowerCase(tag))
        mappingValue ==
            IF dimensionOrConfig.string
            THEN ObjectValue([dimension |-> dimensionOrConfig.value,
                              type |-> "Concept"])
            ELSE dimensionOrConfig
    IN  /\ "null" \in DOMAIN trajectory
        /\ tagMappings' = PutMapping(tagMappings, normalizedTag, mappingValue)
        /\ UNCHANGED <<windowLogs, trajectory, connVars, graphVars, restVars>>

saveTagWithType(tag, dimension, type) ==
    saveTagMapping(tag, ObjectValue([dimension |-> dimension, type |-> type]))

\* saveTagMapping of the first tagMappingService: the dimension as a string
saveTagMappingString(tag, dimension) ==
    LET normalizedTag == trim(toLowerCase(tag))
    IN  /\ "null" \in DOMAIN trajectory
        /\ tagMappings' = PutMapping(tagMappings, normalizedTag,
                                     StringValue(dimension))
        /\ UNCHANGED <<windowLogs, trajectory, connVars, graphVars, restVars>>

\* {...mapping, category: category}; the spread of a string has no
\* dimension
WithCategory(mapping, category) ==
    IF mapping.string
    THEN ObjectValue([spread |-> mapping.value, category |-> category])
    ELSE ObjectValue([k \in DOMAIN mapping.value \cup {"category"} |->
                         IF k = "category" THEN category
                         ELSE mapping.value[k]])

\* updateTagCategories with a categoryMap of one tag
updateTagCategories(tag, category) ==
    LET normalizedTag == trim(toLowerCase(tag))
    IN  /\ "null" \in DOMAIN trajectory
        /\ DOMAIN tagMappings # {}
        /\ tagMappings' =
               PutMapping(tagMappings, normalizedTag,
                   IF normalizedTag \in DOMAIN tagMappings
                   THEN WithCategory(tagMappings[normalizedTag], category)
                   ELSE ObjectValue([dimension |-> sUnknown,
                                     type |-> "Concept",
                                     category |-> category]))
        /\ UNCHANGED <<windowLogs, trajectory, connVars, graphVars, restVars>>

RECURSIVE LogTags(_, _)
\* the normalized tags of the first k logs, in the order they are counted
LogTags(logs, k) ==
    IF k = 0 THEN <<>>
    ELSE LogTags(logs, k - 1)
         \o [i \in 1..Len(logs[k]) |-> trim(toLowerCase(logs[k][i]))]

RECURSIVE CountTags(_, _)
\* tagFrequency after the first k tags, as the entries [tag, frequency] of
\* Object.keys (keys in the order they were first set)
CountTags(tags, k) ==
    IF k = 0 THEN <<>>
    ELSE LET counted == CountTags(tags, k - 1)
         IN  IF \E e \in 1..Len(counted) : counted[e].tag = tags[k]
             THEN [e \in 1..Len(counted) |->
                      IF counted[e].tag = tags[k]
                      THEN [counted[e] EXCEPT !.frequency = @ + 1]
                      ELSE counted[e]]
             ELSE Append(counted, [tag |-> tags[k], frequency |-> 1])

\* getTagAnalytics: {totalLogs, tagFrequency}
getTagAnalytics(logs) ==
    LET tags == LogTags(logs, Len(logs))
    IN  [totalLogs |-> Len(logs), tagFrequency |-> CountTags(tags, Len(tags))]

\* the keys of weightedScores, in the order of the object literal
ScoreKeys == <<CAREER, SPIRITUAL, sPhysical, SOCIAL>>

\* a value is truthy unless it is the empty string
Truthy(value) == ~value.string \/ value.value # <<>>

\* userMappings[tag] || getDimensionFromTag(tag)
DimensionFor(userMappings, tag) ==
    IF tag \in DOMAIN userMappings /\ Truthy(userMappings[tag])
    THEN userMappings[tag]
    ELSE StringValue(getDimensionFromTag(tag))

\* the property key a value is used as
PropertyKey(value) == IF value.string THEN value.value ELSE sObjectObject

\* weightedScores.hasOwnProperty(dimension)
HasScore(dimension) ==
    \E k \in 1..Len(ScoreKeys) : ScoreKeys[k] = PropertyKey(dimension)

RECURSIVE WeightedScores(_, _, _)
\* weightedScores after the forEach over the first k tags
WeightedScores(tagFrequency, userMappings, k) ==
    IF k = 0 THEN [key \in {ScoreKeys[i] : i \in 1..Len(ScoreKeys)} |-> 0]
    ELSE LET scores == WeightedScores(tagFrequency, userMappings, k - 1)
             dimension == DimensionFor(userMappings, tagFrequency[k].tag)
         IN  IF Truthy(dimension) /\ HasScore(dimension)
             THEN [scores EXCEPT ![PropertyKey(dimension)] =
                                     @ + tagFrequency[k].frequency]
             ELSE scores

RECURSIVE SumScores(_, _)
\* Object.values(weightedScores).reduce((sum, val) => sum + val, 0)
SumScores(scores, k) ==
    IF k = 0 THEN 0 ELSE SumScores(scores, k - 1) + scores[ScoreKeys[k]]

\* the percentage cut to its integer part
RoundedDown(score, total) == (100 * score) \div total

\* Math.round((score / total) * 100): the nearest integer, halves upwards.
\* The quotient of the doubles is exact for the halves of the model's
\* totals (eighths)
RoundedPercent(score, total) == (200 * score + total) \div (2 * total)

Percentages(scores) ==
    LET total == SumScores(scores, Len(ScoreKeys))
    IN  [key \in DOMAIN scores |->
            IF total > 0 THEN RoundedPercent(scores[key], total) ELSE 0]

\* the first of the first k keys that has the largest percentage
DominantFirst(percentages, k) ==
    ScoreKeys[CHOOSE i \in 1..k :
                  /\ \A j \in 1..k : percentages[ScoreKeys[j]] <= percentages[ScoreKeys[i]]
                  /\ \A j \in 1..(i - 1) : percentages[ScoreKeys[j]] < percentages[ScoreKeys[i]]]

RECURSIVE Dominant(_, _)
\* Object.keys(percentages).reduce((a, b) => p[a] > p[b] ? a : b) over the
\* first k keys
Dominant(percentages, k) ==
    IF k = 1 THEN ScoreKeys[1]
    ELSE LET a == Dominant(percentages, k - 1)
             b == ScoreKeys[k]
         IN  IF percentages[a] > percentages[b] THEN a ELSE b

\* generateTrajectoryInsight: which of the three messages
generateTrajectoryInsight(percentages, dominant) ==
    LET score == percentages[dominant]
    IN  IF score > 50 THEN "heavily focused"
        ELSE IF score > 30 THEN "primary focus"
        ELSE "well-distributed"

\* what calculateTrajectory returns for the logs of the window and the
\* user's mappings
Trajectory(logs, userMappings) ==
    LET analytics == getTagAnalytics(logs)
        weightedScores ==
            WeightedScores(analytics.tagFrequency, userMappings,
                           Len(analytics.tagFrequency))
        percentages == Percentages(weightedScores)
        dominant == Dominant(percentages, Len(ScoreKeys))
    IN  IF analytics.totalLogs = 0
        THEN [hasData |-> FALSE, message |-> "No data available"]
        ELSE [hasData |-> TRUE, totalLogs |-> analytics.totalLogs,
              dimensionScores |-> weightedScores,
              percentages |-> percentages,
              dominantDimension |-> dominant,
              trajectory |-> generateTrajectoryInsight(percentages, dominant)]

\* Dashboard: loadTrajectory, setTrajectoryData(await calculateTrajectory())
calculateTrajectory ==
    /\ "null" \in DOMAIN trajectory
    /\ trajectory' = Trajectory(windowLogs, tagMappings)
    /\ UNCHANGED <<tagMappings, windowLogs, connVars, graphVars, restVars>>

\* the logs and the mappings are written, then the dashboard is loaded
NextScore ==
    \/ \E tags \in ScoreLogs : createLogInWindow(tags)
    \/ \E tag \in MappedTags, dimension \in ChosenDimensions :
           saveTagMapping(tag, StringValue(dimension))
    \/ \E tag \in MappedTags, dimension \in ChosenDimensions :
           saveTagWithType(tag, dimension, "Book")
    \/ \E tag \in MappedTags :
           saveTagMappingString(tag, sPhysical)
    \/ \E tag \in MappedTags : updateTagCategories(tag, HEALTH)
    \/ calculateTrajectory

SpecScore == Init /\ [][NextScore]_vars

\* ---- the claims on the trajectory scores ----

\* the dashboard holds a snapshot with data
Snapshot == "hasData" \in DOMAIN trajectory /\ trajectory.hasData

\* the dimension of a stored override: of an object with a dimension or of
\* the string of the first format; <<>> when the value carries none
OverrideDimension(value) ==
    IF value.string THEN value.value
    ELSE IF "dimension" \in DOMAIN value.value THEN value.value.dimension
    ELSE <<>>

\* override first, keyword fallback second
ResolvedDimension(tag) ==
    IF tag \in DOMAIN tagMappings
    THEN OverrideDimension(tagMappings[tag])
    ELSE getDimensionFromTag(tag)

RECURSIVE FrequencySum(_, _, _)
\* how many of the first k tag occurrences of the window resolve to the
\* dimension
FrequencySum(tags, k, dimension) ==
    IF k = 0 THEN 0
    ELSE FrequencySum(tags, k - 1, dimension)
         + (IF ResolvedDimension(tags[k]) = dimension THEN 1 ELSE 0)

ResolvedScore(dimension) ==
    LET tags == LogTags(windowLogs, Len(windowLogs))
    IN  FrequencySum(tags, Len(tags), dimension)

\* a tag of the window that has a stored override
OverriddenTagInWindow ==
    LET tags == LogTags(windowLogs, Len(windowLogs))
    IN  \E k \in 1..Len(tags) : tags[k] \in DOMAIN tagMappings

\* C18: every score of the snapshot is the sum of the frequencies of the
\* tags that resolve to its dimension, where a tag resolves to the dimension
\* of its stored override if it has one (object or string format) and to
\* its keyword fallback otherwise; the other tags are left out.
C18_OverrideThenFallback ==
    Snapshot =>
        \A k \in 1..Len(ScoreKeys) :
            trajectory.dimensionScores[ScoreKeys[k]]
                = ResolvedScore(ScoreKeys[k])

\* C19: the snapshot has a score for each of the six dimensions of the
\* registry, and it is the sum of the frequencies of the tags of the window
\* that resolve to the dimension.
C19_ScoreOfEveryRegistryDimension ==
    Snapshot =>
        \A dimension \in {CAREER, SPIRITUAL, HEALTH, SOCIAL, INTELLECTUAL,
                          ENTERTAINMENT} :
            /\ dimension \in DOMAIN trajectory.dimensionScores
            /\ trajectory.dimensionScores[dimension]
                   = ResolvedScore(dimension)

\* total and sum of the percentages of the snapshot
SnapshotTotal == SumScores(trajectory.dimensionScores, Len(ScoreKeys))

PercentageSum == SumScores(trajectory.percentages, Len(ScoreKeys))

\* each percentage is an integer of 0..100 within a half of
\* 100 * score / total, and 0 when the total is 0
PercentagesRounded ==
    \A key \in DOMAIN trajectory.percentages :
        LET p == trajectory.percentages[key]
            score == trajectory.dimensionScores[key]
        IN  /\ p \in 0..100
            /\ IF SnapshotTotal = 0 THEN p = 0
               ELSE /\ 2 * (100 * score - p * SnapshotTotal) <= SnapshotTotal
                    /\ 2 * (p * SnapshotTotal - 100 * score) <= SnapshotTotal

\* C20 as stated: the percentages are the rounded shares and their sum is
\* 0 or 100.
C20_SumIsZeroOrHundred ==
    Snapshot => PercentagesRounded /\ PercentageSum \in {0, 100}

\* C20: the percentages are the rounded shares; their sum is 0 when the
\* total is 0 and otherwise within 2 of 100 (a half for each of the four
\* dimensions).
C20_SumWithinRounding ==
    Snapshot =>
        /\ PercentagesRounded
        /\ IF SnapshotTotal = 0 THEN PercentageSum = 0
           ELSE PercentageSum \in 98..102

\* scores of 1, 1, 3, 3 of 8: 13 + 13 + 38 + 38
C20_Witness ==
    /\ Snapshot
    /\ SnapshotTotal = 8
    /\ PercentageSum = 102

\* ---- the claims on the dominant dimension ----

\* the positions of the keys that have the largest percentage of the snapshot
MaxPositions ==
    {i \in 1..Len(ScoreKeys) :
        \A j \in 1..Len(ScoreKeys) :
            trajectory.percentages[ScoreKeys[j]]
                <= trajectory.percentages[ScoreKeys[i]]}

\* the position of the dominant dimension among the keys
DominantPosition ==
    CHOOSE i \in 1..Len(ScoreKeys) : ScoreKeys[i] = trajectory.dominantDimension

\* C21 as stated: the dominant dimension has the largest rounded percentage
\* and, of several with the largest, it is the first in the order Career,
\* Spiritual, Physical, Social.
C21_FirstOfTheLargest ==
    Snapshot =>
        /\ DominantPosition \in MaxPositions
        /\ \A i \in MaxPositions : DominantPosition <= i

\* C21: the dominant dimension has the largest rounded percentage and, of
\* several with the largest (all 0 included), it is the last in the order
\* Career, Spiritual, Physical, Social.
C21_LastOfTheLargest ==
    Snapshot =>
        /\ \E i \in 1..Len(ScoreKeys) :
               ScoreKeys[i] = trajectory.dominantDimension
        /\ DominantPosition \in MaxPositions
        /\ \A i \in MaxPositions : i <= DominantPosition

\* Career, Spiritual and Social share the largest percentage, 33
C21_Witness ==
    /\ Snapshot
    /\ MaxPositions = {1, 2, 4}
    /\ trajectory.percentages[CAREER] = 33
    /\ trajectory.dominantDimension = SOCIAL

(***************************************************************************)
(* Analytics page: the monthly trends, the totals and the archetype of     *)
(* analyticsEngine.js over the categorized videos of the user.             *)
(***************************************************************************)
\* a day in milliseconds
Day == 24 * 60 * Minute

\* watch times of three months: none, 27 Dec 2023, twice 16 Jan 2024 and
\* 5 Feb 2024 (time 0 + 1 ms is 16 Jan 2024, 00:00 local time)
TrendTimes == {NoTime, -(20 * Day), 60 * Minute, 90 * Minute, 20 * Day}

\* the documents of categorized_videos of the user, in the order of getDocs
StoredVideos(l) ==
    [k \in 1..Len(l) |->
        [title |-> TitleOf(k), category |-> l[k][1], time |-> l[k][2]]]

\* five Career videos; six Health and four Career videos; one video of each
\* dimension
ExampleVideos ==
    {StoredVideos([k \in 1..5 |-> <<CAREER, 60 * Minute>>]),
     StoredVideos([k \in 1..10 |->
                     <<IF k % 2 = 0 /\ k <= 8 THEN CAREER ELSE HEALTH,
                       IF k <= 5 THEN 60 * Minute ELSE 20 * Day>>])}
    \cup {StoredVideos(<<<<d, 90 * Minute>>>>) :
            d \in {CAREER, SPIRITUAL, SOCIAL, INTELLECTUAL}}

TrendInputs ==
    {StoredVideos(l) : l \in ListsOf(VideoCategories \X TrendTimes, MaxVideos)}
    \cup ExampleVideos

\* (b.time || 0) - (a.time || 0) > 0: a goes after b; a missing time is the
\* time 0 of the year 1970, before every watch time
Earlier(timeA, timeB) ==
    IF timeA = NoTime THEN timeB # NoTime
    ELSE timeB # NoTime /\ timeA < timeB

RECURSIVE InsertNewestFirst(_, _)
\* insert video after the elements that do not sort after it
InsertNewestFirst(sorted, video) ==
    IF sorted = <<>> THEN <<video>>
    ELSE IF Earlier(Head(sorted).time, video.time)
         THEN <<video>> \o sorted
         ELSE <<Head(sorted)>> \o InsertNewestFirst(Tail(sorted), video)

RECURSIVE getCategorizedVideos(_)
\* the videos of the user, sorted by time, newest first (a stable sort)
getCategorizedVideos(docs) ==
    IF docs = <<>> THEN <<>>
    ELSE InsertNewestFirst(
             getCategorizedVideos(SubSeq(docs, 1, Len(docs) - 1)),
             docs[Len(docs)])

\* date.getFullYear() and the month of date.toLocaleString, local time
LocalYear(time) == IF time < -(15 * Day) THEN 2023 ELSE 2024

LocalMonth(time) ==
    IF time < -(15 * Day) THEN 12
    ELSE IF time < 16 * Day THEN 1
    ELSE 2

\* toLocaleString('default', {month: 'short'}): "Jan", "Feb", "Dec"
ShortMonth(month) ==
    IF month = 1 THEN <<74, 97, 110>>
    ELSE IF month = 2 THEN <<70, 101, 98>>
    ELSE <<68, 101, 99>>

\* `${month} ${year}`
MonthKey(time) ==
    ShortMonth(LocalMonth(time)) \o <<32>> \o DecimalString(LocalYear(time))

\* the dimensions of the bucket and of totals, in the order of the literal
TrendDimensions ==
    <<CAREER, SPIRITUAL, HEALTH, SOCIAL, INTELLECTUAL, ENTERTAINMENT>>

DimensionSet == {TrendDimensions[i] : i \in 1..Len(TrendDimensions)}

\* the bucket a month starts with
NewBucket(monthKey, date) ==
    [name |-> monthKey, date |-> date, count |-> [d \in DimensionSet |-> 0]]

RECURSIVE MonthlyData(_, _)
\* monthlyData after the forEach over the first k videos, as the values of
\* Object.values (keys in the order they were first set)
MonthlyData(videos, k) ==
    IF k = 0 THEN <<>>
    ELSE LET before == MonthlyData(videos, k - 1)
             video == videos[k]
             monthKey == MonthKey(video.time)
             known == \E b \in 1..Len(before) : before[b].name = monthKey
             buckets == IF known THEN before
                        ELSE Append(before, NewBucket(monthKey, video.time))
         IN  IF video.time = NoTime THEN before
             ELSE [b \in 1..Len(buckets) |->
                      IF buckets[b].name = monthKey
                      THEN [buckets[b] EXCEPT
                               !.count[CategoryOf(video)] = @ + 1]
                      ELSE buckets[b]]

\* the buckets in the order they were created
KeepBuckets(buckets) == buckets

RECURSIVE InsertByDate(_, _)
\* insert bucket after the elements that do not sort after it (a stable
\* sort by the comparator (a, b) => a.date - b.date)
InsertByDate(sorted, bucket) ==
    IF sorted = <<>> THEN <<bucket>>
    ELSE IF Head(sorted).date <= bucket.date
         THEN <<Head(sorted)>> \o InsertByDate(Tail(sorted), bucket)
         ELSE <<bucket>> \o sorted

RECURSIVE SortByDate(_)
SortByDate(buckets) ==
    IF buckets = <<>> THEN <<>>
    ELSE InsertByDate(SortByDate(SubSeq(buckets, 1, Len(buckets) - 1)),
                      buckets[Len(buckets)])

calculateCategoryTrends(videos) ==
    IF Len(videos) = 0 THEN <<>>
    ELSE SortByDate(MonthlyData(videos, Len(videos)))

RECURSIVE Totals(_, _)
\* totals after the forEach over the first k videos
Totals(videos, k) ==
    IF k = 0 THEN [d \in DimensionSet |-> 0]
    ELSE [Totals(videos, k - 1) EXCEPT ![CategoryOf(videos[k])] = @ + 1]

\* DIMENSION_CONFIG[category]?.color || '#808080'
DimensionColor(category) ==
    IF category = CAREER THEN "#00D4FF"
    ELSE IF category = SPIRITUAL THEN "#B026FF"
    ELSE IF category = HEALTH THEN "#39FF14"
    ELSE IF category = SOCIAL THEN "#FF10F0"
    ELSE IF category = INTELLECTUAL THEN "#FFD700"
    ELSE "#808080"

\* the entries of totals, zero totals included
AllEntries(totals) ==
    [i \in 1..Len(TrendDimensions) |->
        [name |-> TrendDimensions[i], value |-> totals[TrendDimensions[i]],
         color |-> DimensionColor(TrendDimensions[i])]]

\* the entries of totals with none left out
EntriesWithZeros(totals) == AllEntries(totals)

\* Object.entries(totals).filter(([_, value]) => value > 0).map(...)
PieEntries(totals) ==
    SelectSeq(AllEntries(totals), LAMBDA item : item.value > 0)

calculateCategoryTotals(videos) == PieEntries(Totals(videos, Len(videos)))

RECURSIVE MaxItem(_, _, _)
\* items.reduce((max, item) => item.value > max.value ? item : max, init)
\* over the first k items
MaxItem(items, init, k) ==
    IF k = 0 THEN init
    ELSE LET max == MaxItem(items, init, k - 1)
         IN  IF items[k].value > max.value THEN items[k] ELSE max

\* archetypes[dominant.name] || 'Explorer'
ArchetypeOf(name) ==
    IF name = CAREER THEN "Builder"
    ELSE IF name = SPIRITUAL THEN "Seeker"
    ELSE IF name = HEALTH THEN "Warrior"
    ELSE IF name = SOCIAL THEN "Connector"
    ELSE IF name = INTELLECTUAL THEN "Scholar"
    ELSE IF name = ENTERTAINMENT THEN "Dreamer"
    ELSE "Explorer"

getDominantArchetype(pie) ==
    IF Len(pie) = 0 THEN "Explorer"
    ELSE ArchetypeOf(MaxItem(pie, pie[1], Len(pie)).name)

\* calculateSummaryStats; videos is not empty when the page calls it
calculateSummaryStats(videos) ==
    LET totals == calculateCategoryTotals(videos)
        topCategory ==
            MaxItem(totals,
                    IF Len(totals) > 0 THEN totals[1]
                    ELSE [name |-> "None", value |-> 0],
                    Len(totals))
    IN  [totalVideos |-> Len(videos),
         topCategory |-> topCategory.name,
         topCategoryCount |-> topCategory.value,
         topCategoryPercentage |->
             RoundedPercent(topCategory.value, Len(videos))]

\* Analytics page: loadAnalytics; without videos it only ends the loading
loadAnalytics ==
    LET videos == getCategorizedVideos(categorizedVideos)
        pie == calculateCategoryTotals(videos)
    IN  /\ loading
        /\ loading' = FALSE
        /\ IF Len(videos) = 0
           THEN UNCHANGED <<trendsData, pieData, archetype, stats>>
           ELSE /\ trendsData' = calculateCategoryTrends(videos)
                /\ pieData' = pie
                /\ archetype' = getDominantArchetype(pie)
                /\ stats' = calculateSummaryStats(videos)
        /\ UNCHANGED <<connVars, graphVars, scoreVars, classifyVars, saveVars,
                       mappingVars>>

InitTrends ==
    /\ Init!1 /\ Init!2 /\ Init!3 /\ Init!4 /\ Init!5
    /\ categorizedVideos \in TrendInputs
    /\ graphSource = "none"
    /\ graphData = [nodes |-> <<>>, links |-> <<>>]
    /\ minNodeWeight = 1
    /\ filteredGraphData = [nodes |-> <<>>, links |-> <<>>]
    /\ tagMappings = <<>>
    /\ windowLogs = <<>>
    /\ trajectory = [null |-> TRUE]
    /\ RestInit

NextTrends == loadAnalytics

SpecTrends == InitTrends /\ [][NextTrends]_vars

\* ---- the claims on the trends, the totals and the archetype ----

\* the page has loaded the analytics of a user who has videos
AnalyticsLoaded == ~loading /\ Len(categorizedVideos) > 0

\* the positions of the videos that have a watch time
Timestamped ==
    {k \in 1..Len(categorizedVideos) : categorizedVideos[k].time # NoTime}

\* the month and year of a video
MonthOfVideo(k) ==
    <<LocalYear(categorizedVideos[k].time),
      LocalMonth(categorizedVideos[k].time)>>

MonthsOfVideos == {MonthOfVideo(k) : k \in Timestamped}

\* the videos of a month that are of a dimension
EventsOf(month, dimension) ==
    {k \in Timestamped :
        /\ MonthOfVideo(k) = month
        /\ CategoryOf(categorizedVideos[k]) = dimension}

\* the month and year of a bucket, by its date
MonthOfBucket(i) ==
    <<LocalYear(trendsData[i].date), LocalMonth(trendsData[i].date)>>

\* <<year, month>> a is before b
MonthBefore(a, b) == a[1] < b[1] \/ (a[1] = b[1] /\ a[2] < b[2])

RECURSIVE SumOfCounts(_, _)
\* the counts of the first k dimensions, over all buckets
SumOfCounts(i, k) ==
    IF i = 0 THEN 0
    ELSE IF k = 0 THEN SumOfCounts(i - 1, Len(TrendDimensions))
    ELSE trendsData[i].count[TrendDimensions[k]] + SumOfCounts(i, k - 1)

\* C22: the trends hold one bucket for each month and year of the videos
\* that have a watch time, named by it; the count of a dimension in a bucket
\* is the number of the month's videos of that dimension, so that the counts
\* add up to the number of videos with a watch time (those without one are
\* in no bucket); the buckets ascend strictly by month.
C22_MonthlyBuckets ==
    AnalyticsLoaded =>
        /\ Len(trendsData) = Cardinality(MonthsOfVideos)
        /\ \A month \in MonthsOfVideos :
               \E i \in 1..Len(trendsData) : MonthOfBucket(i) = month
        /\ \A i \in 1..Len(trendsData) :
               /\ MonthOfBucket(i) \in MonthsOfVideos
               /\ trendsData[i].name = MonthKey(trendsData[i].date)
               /\ \A d \in DimensionSet :
                      trendsData[i].count[d]
                          = Cardinality(EventsOf(MonthOfBucket(i), d))
        /\ SumOfCounts(Len(trendsData), Len(TrendDimensions))
               = Cardinality(Timestamped)
        /\ \A i, j \in 1..Len(trendsData) :
               i < j => /\ MonthBefore(MonthOfBucket(i), MonthOfBucket(j))
                        /\ trendsData[i].date < trendsData[j].date

\* three videos: one without a watch time, one of December and one of
\* January, stored oldest first
C22_Witness ==
    /\ AnalyticsLoaded
    /\ Len(categorizedVideos) = 3
    /\ Cardinality(Timestamped) = 2
    /\ Len(trendsData) = 2
    /\ trendsData[1].date < 0
    /\ \E k \in 1..2 : /\ k \in Timestamped /\ k + 1 \in Timestamped
                       /\ categorizedVideos[k].time
                              < categorizedVideos[k + 1].time

\* the number of videos of a dimension
TotalOf(dimension) ==
    Cardinality({k \in 1..Len(categorizedVideos) :
                    CategoryOf(categorizedVideos[k]) = dimension})

\* the totals as a pie chart would hold them
PieHolds(dimension, value) ==
    \E i \in 1..Len(pieData) :
        pieData[i].name = dimension /\ pieData[i].value = value

BatchSize == 2

\* items of one call (5 tags and 50 videos in the Settings page)
MaxItems == 3

\* retryCount < 3
MaxRetries == 3

\* the unassigned tags handed to categorizeTagsInBatches: keys of the
\* stored mappings, so normalized and distinct
ClassifyTagInputs ==
    {SubSeq(<<sGym, sCoffee, sFriends, sWork>>, 1, n) : n \in 1..MaxItems}

\* the videos handed to categorizeTitlesInBatches
ClassifyVideoInputs ==
    {[k \in 1..n |-> [title |-> TitleOf(k), time |-> 60 * Minute]] :
        n \in 0..MaxItems}

\* the category of an answer: a valid one, Unassigned (of the registry but
\* not of getDimensionNames), or none (null, undefined, "")
AnswerCategories == {HEALTH, UNASSIGNED, NoCategory}

Min(a, b) == IF a < b THEN a ELSE b

\* batches.length
NumBatches(items) == (Len(items) + BatchSize - 1) \div BatchSize

\* items.slice(i, i + batchSize) of the b-th batch
BatchOf(items, b) ==
    SubSeq(items, (b - 1) * BatchSize + 1, Min(b * BatchSize, Len(items)))

\* the sequences without a repeated key of at most n of the entries
RECURSIVE AnswersOver(_, _)
AnswersOver(entries, n) ==
    IF n = 0 THEN {<<>>}
    ELSE LET shorter == AnswersOver(entries, n - 1)
         IN  shorter \cup
             UNION {{Append(a, e) :
                        e \in {x \in entries :
                                 \A i \in 1..Len(a) : a[i].key # x.key}} :
                    a \in {s \in shorter : Len(s) = n - 1}}

\* the JSON objects the oracle may answer a batch of tags with: some of the
\* tags of the batch and "GYM ", which was not asked for
TagAnswers(batch) ==
    AnswersOver({[key |-> k, category |-> c] :
                    k \in {batch[i] : i \in 1..Len(batch)} \cup {sGymUp},
                    c \in AnswerCategories}, BatchSize)

\* the JSON arrays the oracle may answer a batch of titles with: some of
\* the indexes of the batch and one beyond it
TitleAnswers(batch) ==
    AnswersOver({[key |-> k, category |-> c] :
                    k \in 1..(Len(batch) + 1), c \in AnswerCategories},
                BatchSize)

\* the category as the oracle gave it
PassThrough(category) == category

\* validDimensions.has(category) ? category : 'Entertainment'
ValidCategory(category) ==
    IF \E i \in 1..Len(getDimensionNames) : getDimensionNames[i] = category
    THEN category
    ELSE ENTERTAINMENT

\* entries[tag] = category of an object, as its entries in key order
PutEntry(entries, tag, category) ==
    IF \E i \in 1..Len(entries) : entries[i].tag = tag
    THEN [i \in 1..Len(entries) |->
             IF entries[i].tag = tag
             THEN [entries[i] EXCEPT !.category = category]
             ELSE entries[i]]
    ELSE Append(entries, [tag |-> tag, category |-> category])

RECURSIVE ValidatedCategories(_, _)
\* validatedCategories after the forEach over the first k keys of the
\* answer
ValidatedCategories(answer, k) ==
    IF k = 0 THEN <<>>
    ELSE PutEntry(ValidatedCategories(answer, k - 1),
                  trim(toLowerCase(answer[k].key)),
                  ValidCategory(answer[k].category))

RECURSIVE SpreadInto(_, _, _)
\* {...allCategories, ...batchCategories} over the first k entries of the
\* batch
SpreadInto(allCategories, batchCategories, k) ==
    IF k = 0 THEN allCategories
    ELSE PutEntry(SpreadInto(allCategories, batchCategories, k - 1),
                  batchCategories[k].tag, batchCategories[k].category)

\* categorization.find(c => c.index === i + 1)?.category || 'Entertainment'
FoundCategory(answer, index) ==
    LET found == {i \in 1..Len(answer) : answer[i].key = index}
        first == CHOOSE i \in found : \A j \in found : i <= j
    IN  IF found = {} \/ answer[first].category = NoCategory
        THEN ENTERTAINMENT
        ELSE answer[first].category

\* videos.map((video, i) => ({...video, category, title}))
CategorizedBatch(videos, answer) ==
    [i \in 1..Len(videos) |->
        [title |-> videos[i].title, time |-> videos[i].time,
         category |-> ValidCategory(FoundCategory(answer, i))]]

\* onProgress of the b-th batch
ProgressOf(items, b) ==
    [current |-> (b - 1) * BatchSize + Len(BatchOf(items, b)),
     total |-> Len(items)]

\* handleAICategorize calls categorizeTagsInBatches: the first batch is
\* reported and requested
categorizeTagsInBatches(tags) ==
    /\ classification.pc = "idle"
    /\ classification' =
           [classification EXCEPT
               !.kind = "tags", !.items = tags, !.pc = "fetch", !.batch = 1,
               !.requests = 1, !.progress = ProgressOf(tags, 1)]
    /\ UNCHANGED <<connVars, graphVars, scoreVars, analyticsVars, saveVars,
                   mappingVars>>

\* the import calls categorizeTitlesInBatches; without videos it returns []
categorizeTitlesInBatches(videos) ==
    /\ classification.pc = "idle"
    /\ classification' =
           IF Len(videos) = 0
           THEN [classification EXCEPT
                    !.kind = "titles", !.pc = "done", !.outcome = "returned"]
           ELSE [classification EXCEPT
                    !.kind = "titles", !.items = videos, !.pc = "fetch",
                    !.batch = 1, !.requests = 1,
                    !.progress = ProgressOf(videos, 1)]
    /\ UNCHANGED <<connVars, graphVars, scoreVars, analyticsVars, saveVars,
                   mappingVars>>

\* the response has status 429: categorizeTags sleeps and retries while
\* retryCount < 3 and throws after that; categorizeTitles throws as for any
\* response that is not ok
RateLimited ==
    /\ classification.pc = "fetch"
    /\ classification' =
           IF classification.kind = "tags"
           THEN IF classification.retryCount < MaxRetries
                THEN [classification EXCEPT
                         !.pc = "sleep", !.lastStatus = "429"]
                ELSE [classification EXCEPT
                         !.pc = "done", !.lastStatus = "429",
                         !.outcome = "error",
                         !.error = "Rate limit exceeded after 3 retries"]
           ELSE [classification EXCEPT
                    !.pc = "done", !.lastStatus = "429",
                    !.outcome = "error", !.error = "Gemini API error"]
    /\ UNCHANGED <<connVars, graphVars, scoreVars, analyticsVars, saveVars,
                   mappingVars>>

\* sleep(20000) is over: categorizeTags(tags, retryCount + 1)
RetryAfterSleep ==
    /\ classification.pc = "sleep"
    /\ classification' =
           [classification EXCEPT
               !.pc = "fetch", !.retryCount = @ + 1, !.requests = @ + 1]
    /\ UNCHANGED <<connVars, graphVars, scoreVars, analyticsVars, saveVars,
                   mappingVars>>

\* another response that is not ok, a response without text, or a text
\* that is not JSON: the call throws
RequestFails(error) ==
    /\ classification.pc = "fetch"
    /\ classification' =
           [classification EXCEPT
               !.pc = "done", !.lastStatus = "failed", !.outcome = "error",
               !.error = error]
    /\ UNCHANGED <<connVars, graphVars, scoreVars, analyticsVars, saveVars,
                   mappingVars>>

\* the oracle answers the batch: the answer is validated and added to the
\* result; the call returns after the last batch and pauses otherwise
Answered(answer) ==
    LET items == classification.items
        batch == BatchOf(items, classification.batch)
        validated == ValidatedCategories(answer, Len(answer))
        result ==
            IF classification.kind = "tags"
            THEN SpreadInto(classification.result, validated, Len(validated))
            ELSE classification.result \o CategorizedBatch(batch, answer)
        last == classification.batch = NumBatches(items)
    IN  /\ classification.pc = "fetch"
        /\ classification' =
               [classification EXCEPT
                   !.pc = IF last THEN "done" ELSE "pause",
                   !.lastStatus = "ok",
                   !.answers = Append(@, answer),
                   !.result = result,
                   !.outcome = IF last THEN "returned" ELSE @]
        /\ UNCHANGED <<connVars, graphVars, scoreVars, analyticsVars, saveVars,
                   mappingVars>>

\* the delay between two batches is over: the next batch is reported and
\* requested
NextBatch ==
    /\ classification.pc = "pause"
    /\ classification' =
           [classification EXCEPT
               !.pc = "fetch", !.batch = @ + 1, !.retryCount = 0,
               !.requests = 1, !.lastStatus = "none",
               !.progress = ProgressOf(classification.items,
                                       classification.batch + 1)]
    /\ UNCHANGED <<connVars, graphVars, scoreVars, analyticsVars, saveVars,
                   mappingVars>>

\* what the oracle may answer the request in flight with
PossibleAnswers ==
    IF classification.pc # "fetch" THEN {}
    ELSE IF classification.kind = "tags"
    THEN TagAnswers(BatchOf(classification.items, classification.batch))
    ELSE TitleAnswers(BatchOf(classification.items, classification.batch))

NextClassify ==
    \/ \E tags \in ClassifyTagInputs : categorizeTagsInBatches(tags)
    \/ \E videos \in ClassifyVideoInputs : categorizeTitlesInBatches(videos)
    \/ RateLimited
    \/ RetryAfterSleep
    \/ \E error \in {"Gemini API error", "No response from Gemini API",
                     "SyntaxError"} : RequestFails(error)
    \/ \E answer \in PossibleAnswers : Answered(answer)
    \/ NextBatch

SpecClassify == Init /\ [][NextClassify]_vars

\* ---- the claims on the classification calls ----

\* C24: a classification call makes at most four requests for a batch, and
\* when the oracle answers 429 it gives up with an error only after it has
\* waited and retried three times, for tags and for titles alike.
C24_RetriesBeforeError ==
    /\ classification.requests <= MaxRetries + 1
    /\ classification.retryCount <= MaxRetries
    /\ (classification.pc = "done" /\ classification.lastStatus = "429")
           => /\ classification.outcome = "error"
              /\ classification.retryCount = MaxRetries
              /\ classification.requests = MaxRetries + 1

\* the same for the tags alone
TagsRetryBeforeError == classification.kind = "tags" => C24_RetriesBeforeError

\* the allowed labels
AllowedLabels == {CAREER, SPIRITUAL, HEALTH, SOCIAL, INTELLECTUAL,
                  ENTERTAINMENT}

\* the label that stands for what the oracle gave
LabelFor(category) ==
    IF category \in AllowedLabels THEN category ELSE ENTERTAINMENT

RECURSIVE AllAnswered(_)
\* the entries of the first b answers, one after the other
AllAnswered(b) ==
    IF b = 0 THEN <<>>
    ELSE AllAnswered(b - 1) \o classification.answers[b]

\* the last entry the oracle gave for a tag
LastAnswerFor(tag) ==
    LET all == AllAnswered(Len(classification.answers))
        given == {i \in 1..Len(all) : trim(toLowerCase(all[i].key)) = tag}
    IN  all[CHOOSE i \in given : \A j \in given : j <= i]

\* a tag the oracle gave an entry for
AnsweredTag(tag) ==
    \E b \in 1..Len(classification.answers) :
        \E i \in 1..Len(classification.answers[b]) :
            trim(toLowerCase(classification.answers[b][i].key)) = tag

\* the label of the i-th video: of the first entry of its batch's answer
\* with its index, or none
AnsweredCategoryOfVideo(i) ==
    LET answer == classification.answers[((i - 1) \div BatchSize) + 1]
        index == ((i - 1) % BatchSize) + 1
        given == {k \in 1..Len(answer) : answer[k].key = index}
    IN  IF given = {} THEN NoCategory
        ELSE answer[CHOOSE k \in given : \A j \in given : k <= j].category

\* C25: every label of a classification result is one of the six allowed
\* labels: the label the oracle gave if that is allowed and Entertainment
\* if it is not allowed or missing; such an answer is not rejected.
C25_LabelsAllowed ==
    /\ \A i \in 1..Len(classification.result) :
           /\ classification.result[i].category \in AllowedLabels
           /\ classification.kind = "tags" =>
                  /\ AnsweredTag(classification.result[i].tag)
                  /\ classification.result[i].category
                         = LabelFor(LastAnswerFor(
                               classification.result[i].tag).category)
           /\ classification.kind = "titles" =>
                  classification.result[i].category
                      = LabelFor(AnsweredCategoryOfVideo(i))
    /\ classification.lastStatus = "ok" => classification.outcome # "error"

\* the oracle answered Unassigned for gym, and gym is under Entertainment
C25_Witness ==
    /\ classification.kind = "tags"
    /\ classification.outcome = "returned"
    /\ \E i \in 1..Len(classification.result) :
           /\ classification.result[i].tag = sGym
           /\ classification.result[i].category = ENTERTAINMENT
           /\ LastAnswerFor(sGym).category = UNASSIGNED

\* C26: a classification call that returns holds exactly one label for
\* every item it was given and none for anything else.
C26_OneLabelPerItem ==
    classification.outcome = "returned" =>
        /\ Len(classification.result) = Len(classification.items)
        /\ classification.kind = "tags" =>
               {classification.result[i].tag :
                    i \in 1..Len(classification.result)}
                   = {classification.items[i] :
                          i \in 1..Len(classification.items)}
        /\ classification.kind = "titles" =>
               \A i \in 1..Len(classification.result) :
                   /\ classification.result[i].title
                          = classification.items[i].title
                   /\ classification.result[i].time
                          = classification.items[i].time

\* the same for the titles alone
TitlesOneLabelPerItem ==
    classification.kind = "titles" => C26_OneLabelPerItem

(***************************************************************************)
(* saveCategorizedVideos of categorizedVideoService.js: the categorized    *)
(* videos are written to categorized_videos in chunks.                     *)
(***************************************************************************)
\* BATCH_SIZE, the writes of one batch (500 in the code; the chunking is
\* the same for every size)
ChunkSize == 2

\* calls of saveCategorizedVideos with one list
MaxRuns == 2

\* the user id: "u1"
sUser == <<117, 49>>

\* the categorized videos of an import
SaveInputs ==
    {StoredVideos(l) :
        l \in ListsOf({ENTERTAINMENT, HEALTH} \X {NoTime, 60 * Minute},
                      MaxVideos)}

\* `${userId}_${globalIndex}`
VideoDocId(userId, globalIndex) ==
    userId \o <<95>> \o DecimalString(globalIndex)

\* the document of batch.set; Timestamp.now() is the time of the run
VideoDoc(userId, video, globalIndex, now) ==
    [userId |-> userId, title |-> video.title, category |-> video.category,
     time |-> video.time,
     watchedAt |-> IF video.time # NoTime THEN [at |-> video.time]
                   ELSE [now |-> now],
     source |-> "youtube_takeout", createdAt |-> [now |-> now],
     index |-> globalIndex]

\* a chunk of every size that is left
WholeRest(videos, i) == Len(videos) - i

\* the length of categorizedVideos.slice(i, i + BATCH_SIZE)
ChunkLength(videos, i) == Min(ChunkSize, Len(videos) - i)

\* the store after batch.commit() of the chunk at i: set with merge on the
\* fields of the document
CommitOf(docs, userId, videos, i, now) ==
    LET ids == {VideoDocId(userId, i + idx) :
                   idx \in 0..(ChunkLength(videos, i) - 1)}
    IN  [id \in DOMAIN docs \cup ids |->
            IF id \in ids
            THEN LET idx == CHOOSE x \in 0..(ChunkLength(videos, i) - 1) :
                                VideoDocId(userId, i + x) = id
                 IN  VideoDoc(userId, videos[i + idx + 1], i + idx, now)
            ELSE docs[id]]

\* saveCategorizedVideos(userId, categorizedVideos, onProgress) is called:
\* without videos it returns at once, otherwise the first batch is built
\* and its commit awaited
StartSave(videos) ==
    /\ saving' =
           [run |-> saving.run + 1, failed |-> saving.failed,
            items |-> videos,
            pc |-> IF Len(videos) = 0 THEN "done" ELSE "commit",
            i |-> 0, savedCount |-> 0, progress |-> saving.progress,
            outcome |-> IF Len(videos) = 0 THEN "returned" ELSE "pending"]
    /\ UNCHANGED <<videoStore, connVars, graphVars, scoreVars, analyticsVars,
                   classifyVars, mappingVars>>

saveCategorizedVideos(videos) ==
    /\ saving.pc = "idle"
    /\ StartSave(videos)

\* the import is run again with the same user and list
saveCategorizedVideosAgain ==
    /\ saving.pc = "done"
    /\ saving.run < MaxRuns
    /\ StartSave(saving.items)

\* await batch.commit() resolves: the chunk is stored, counted and
\* reported; the next chunk follows or the call returns
CommitChunk ==
    LET length == ChunkLength(saving.items, saving.i)
        last == saving.i + ChunkSize >= Len(saving.items)
    IN  /\ saving.pc = "commit"
        /\ videoStore' = CommitOf(videoStore, sUser, saving.items, saving.i,
                                  saving.run)
        /\ saving' = [saving EXCEPT
                         !.savedCount = @ + length,
                         !.progress = saving.savedCount + length,
                         !.i = @ + ChunkSize,
                         !.pc = IF last THEN "done" ELSE "commit",
                         !.outcome = IF last THEN "returned" ELSE @]
        /\ UNCHANGED <<connVars, graphVars, scoreVars, analyticsVars,
                       classifyVars, mappingVars>>

\* await batch.commit() rejects: nothing of the chunk is stored and the
\* error is thrown
CommitFails ==
    /\ saving.pc = "commit"
    /\ saving' = [saving EXCEPT
                     !.pc = "done", !.outcome = "error", !.failed = @ + 1]
    /\ UNCHANGED <<videoStore, connVars, graphVars, scoreVars, analyticsVars,
                   classifyVars, mappingVars>>

NextSave ==
    \/ \E videos \in SaveInputs : saveCategorizedVideos(videos)
    \/ saveCategorizedVideosAgain
    \/ CommitChunk
    \/ CommitFails

SpecSave == Init /\ [][NextSave]_vars

\* ---- the claim on saveCategorizedVideos ----

\* the documents of the first n items, apart from the time of writing
StoredPrefix(n) ==
    /\ DOMAIN videoStore = {VideoDocId(sUser, k - 1) : k \in 1..n}
    /\ \A k \in 1..n :
           LET stored == videoStore[VideoDocId(sUser, k - 1)]
           IN  /\ stored.title = saving.items[k].title
               /\ stored.category = saving.items[k].category
               /\ stored.time = saving.items[k].time
               /\ stored.index = k - 1
               /\ stored.userId = sUser

\* C27: in the first run the store holds exactly the items of the chunks
\* committed so far, a prefix of whole chunks of at most ChunkSize items in
\* input order; the progress reported is the number of items committed;
\* a failed commit ends the call with the error and leaves that prefix.
\* A later run with the same list never stores a second document for an
\* item, and after it returned the store holds exactly one document for
\* every item.
C27_ChunksPrefixAndRerun ==
    /\ saving.run = 1 =>
           /\ StoredPrefix(saving.savedCount)
           /\ saving.progress = saving.savedCount
           /\ saving.savedCount = Min(saving.i, Len(saving.items))
           /\ saving.i % ChunkSize = 0
           /\ saving.outcome = "returned" =>
                  saving.savedCount = Len(saving.items)
    /\ saving.run > 1 =>
           /\ \E n \in 0..Len(saving.items) : StoredPrefix(n)
           /\ saving.outcome = "returned" => StoredPrefix(Len(saving.items))

\* a commit of the first run failed and the second run returned
C27_Witness ==
    /\ saving.run = 2
    /\ saving.failed = 1
    /\ saving.outcome = "returned"
    /\ Len(saving.items) = 3
    /\ \A id \in DOMAIN videoStore : videoStore[id].createdAt.now = 2

(***************************************************************************)
(* tagMappingService.js under concurrent calls: every call reads the       *)
(* user's document of tag_mappings and later writes the whole mappings     *)
(* field back; the pages do not wait for one call before the next.         *)
(***************************************************************************)
MappingSlots == 1..MaxMappingCalls

\* a call is made in the first free slot and awaits getDoc
CallMapping(c, op, tag, value) ==
    /\ mappingCalls[c].pc = "idle"
    /\ \A d \in MappingSlots : d < c => mappingCalls[d].pc # "idle"
    /\ mappingCalls' =
           [mappingCalls EXCEPT
               ![c] = [@ EXCEPT !.op = op, !.pc = "getDoc",
                                !.given = [tag |-> trim(toLowerCase(tag)),
                                           value |-> value]]]
    /\ UNCHANGED <<scoreVars, connVars, graphVars, analyticsVars,
                   classifyVars, saveVars>>

\* handleDimensionChange / handleTypeChange: saveTagWithType, which is
\* saveTagMapping with {dimension, type}
CallSaveTagWithType(c, tag, dimension, type) ==
    CallMapping(c, "saveTagMapping", tag,
                ObjectValue([dimension |-> dimension, type |-> type]))

\* handleAICategorize initialises a tag: saveMultipleTagMappings
CallSaveMultipleTagMappings(c, tag) ==
    CallMapping(c, "saveMultipleTagMappings", tag,
                ObjectValue([dimension |-> sUnknown, type |-> "Concept",
                             category |-> UNASSIGNED]))

\* handleAICategorize stores a category: updateTagCategories
CallUpdateTagCategories(c, tag, category) ==
    CallMapping(c, "updateTagCategories", tag, category)

\* await getDoc(docRef) resolves with the document as it is now;
\* updateTagCategories returns without a write when there is none
DocRead(c) ==
    LET exists == DOMAIN tagMappings # {}
        failed == mappingCalls[c].op = "updateTagCategories" /\ ~exists
    IN  /\ mappingCalls[c].pc = "getDoc"
        /\ mappingCalls' =
               [mappingCalls EXCEPT
                   ![c] = [@ EXCEPT
                              !.pc = IF failed THEN "done" ELSE "write",
                              !.result = IF failed THEN "no mappings" ELSE @,
                              !.snapshot = [exists |-> exists,
                                            mappings |-> tagMappings]]]
        /\ UNCHANGED <<scoreVars, connVars, graphVars, analyticsVars,
                       classifyVars, saveVars>>

\* the mappings field the call writes, from the document it read: setDoc of
\* a new document, or updateDoc of the mappings it read with its own entry
WrittenMappings(call) ==
    LET current == call.snapshot.mappings
        tag == call.given.tag
    IN  IF call.op = "updateTagCategories"
        THEN PutMapping(current, tag,
                 IF tag \in DOMAIN current /\ Truthy(current[tag])
                 THEN WithCategory(current[tag], call.given.value)
                 ELSE ObjectValue([dimension |-> sUnknown,
                                   type |-> "Concept",
                                   category |-> call.given.value]))
        ELSE IF call.snapshot.exists
        THEN PutMapping(current, tag, call.given.value)
        ELSE PutMapping(<<>>, tag, call.given.value)

\* the number of calls that have completed
Completed ==
    Cardinality({c \in MappingSlots : mappingCalls[c].doneAt > 0})

\* await updateDoc / setDoc resolves: the document holds what the call wrote
DocWritten(c) ==
    /\ mappingCalls[c].pc = "write"
    /\ tagMappings' = WrittenMappings(mappingCalls[c])
    /\ mappingCalls' =
           [mappingCalls EXCEPT
               ![c] = [@ EXCEPT !.pc = "done", !.result = "success",
                                !.doneAt = Completed + 1]]
    /\ UNCHANGED <<windowLogs, trajectory, connVars, graphVars,
                   analyticsVars, classifyVars, saveVars>>

\* the write rejects: the call throws
WriteRejected(c) ==
    /\ mappingCalls[c].pc = "write"
    /\ mappingCalls' =
           [mappingCalls EXCEPT
               ![c] = [@ EXCEPT !.pc = "done", !.result = "error"]]
    /\ UNCHANGED <<scoreVars, connVars, graphVars, analyticsVars,
                   classifyVars, saveVars>>

NextMapping ==
    \/ \E c \in MappingSlots, tag \in MappedTags :
           \E dimension \in ChosenDimensions :
               CallSaveTagWithType(c, tag, dimension, "Book")
    \/ \E c \in MappingSlots, tag \in MappedTags :
           CallSaveMultipleTagMappings(c, tag)
    \/ \E c \in MappingSlots, tag \in MappedTags :
           CallUpdateTagCategories(c, tag, HEALTH)
    \/ \E c \in MappingSlots : DocRead(c)
    \/ \E c \in MappingSlots : DocWritten(c)
    \/ \E c \in MappingSlots : WriteRejected(c)

SpecMapping == Init /\ [][NextMapping]_vars

\* ---- the claims on the tag mappings ----

\* the calls that completed with a write of the tag
SavedCalls(tag) ==
    {c \in MappingSlots :
        /\ mappingCalls[c].result = "success"
        /\ mappingCalls[c].given.tag = tag}

\* the last of them
LatestSaved(tag) ==
    CHOOSE c \in SavedCalls(tag) :
        \A d \in SavedCalls(tag) :
            mappingCalls[d].doneAt <= mappingCalls[c].doneAt

\* the stored value is what the call saved
HoldsSaved(call) ==
    LET stored == tagMappings[call.given.tag]
    IN  IF call.op = "updateTagCategories"
        THEN /\ ~stored.string
             /\ "category" \in DOMAIN stored.value
             /\ stored.value.category = call.given.value
        ELSE stored = call.given.value

\* C28: every tag that a completed call of tagMappingService saved is a key
\* of the stored mappings, with the value of the last completed save of it,
\* however the calls of one user interleave.
C28_NoMappingLost ==
    \A tag \in MappedTags :
        LET normalizedTag == trim(toLowerCase(tag))
        IN  SavedCalls(normalizedTag) # {} =>
                /\ normalizedTag \in DOMAIN tagMappings
                /\ HoldsSaved(mappingCalls[LatestSaved(normalizedTag)])

\* C29: a step that changes a stored mapping which has a category keeps the
\* category when it changes the dimension or the type, and keeps the
\* dimension and the type when it changes the category.
C29_OtherAttributesKept ==
    [][\A tag \in DOMAIN tagMappings :
           LET before == tagMappings[tag]
               after == tagMappings'[tag]
           IN  (/\ ~before.string
                /\ {"dimension", "type", "category"} \subseteq
                       DOMAIN before.value
                /\ after # before)
               => /\ ~after.string
                  /\ {"dimension", "type", "category"} \subseteq
                         DOMAIN after.value
                  /\ \/ after.value.category = before.value.category
                     \/ /\ after.value.dimension = before.value.dimension
                        /\ after.value.type = before.value.type]_vars

\* the same for the steps that change the category
C29_CategoryUpdateKeepsRest ==
    [][\A tag \in DOMAIN tagMappings :
           LET before == tagMappings[tag]
               after == tagMappings'[tag]
           IN  (/\ ~before.string
                /\ {"dimension", "type"} \subseteq DOMAIN before.value
                /\ ~after.string
                /\ "category" \in DOMAIN after.value
                /\ "category" \in DOMAIN before.value
                       => after.value.category # before.value.category)
               => /\ after.value.dimension = before.value.dimension
                  /\ after.value.type = before.value.type]_vars

\* ---- the claim on the connection ids ----

\* C30: the document id is injective on unordered pairs of normalized tags:
\* the document at the id of a pair of a committed call is the Connection
\* of that pair (its source and target are the two tags), so that no pair
\* shares the document, and with it the weight, of another pair.
C30_ConnectionIdInjective ==
    \A c \in Slots :
        calls[c].committed =>
            \A pair \in ListPairs(calls[c].tags) :
                LET id == generateConnectionId(pair[1], pair[2])
                IN  /\ id \in DOMAIN store
                    /\ store[id].source = pair[1]
                    /\ store[id].target = pair[2]

====
